---------------------------- MODULE Spec2Model ----------------------------
(***************************************************************************)
(* Model of cortex-load-generator (pkg/client): the write client           *)
(* (write.go), the query client's pure helpers (query.go) and the series   *)
(* generator.                                                              *)
(*                                                                         *)
(* Time.  A time.Duration is an integer count of duration units and a      *)
(* time.Time a count of the same units since the Unix epoch.  The code's   *)
(* unit is the nanosecond; the arithmetic the model copies (integer        *)
(* division truncated toward zero, multiplication, comparison) does not    *)
(* depend on the unit, so the model uses small integers.  Where the code   *)
(* converts between units (UnixMilli, Unix, Seconds) the model says so.    *)
(***************************************************************************)
EXTENDS Integers, Sequences, FiniteSets, TLC

VARIABLES
    cfg,        \* WriteClientConfig of the client (immutable after Init)
    now,        \* wall clock, time.Now()
    ticker,     \* time.Ticker: [started, next, c]; c = items buffered in ticker.C
    pc,         \* position of the run() goroutine
    tick,       \* number of writeSeries calls started
    ts,         \* writeSeries: aligned timestamp of the current call
    series,     \* writeSeries: the generated series (wave ids, in order)
    o,          \* writeSeries: loop offset
    wg,         \* writeSeries: sync.WaitGroup counter
    gateLen,    \* len(writeGate.ch): permits held
    batches,    \* batch goroutines: set of [tick, o, st, ser, err, sends]
    sent,       \* requests handed to c.send in the current call: set of [tick, o, req]
    input,      \* argument record of the pure function under test
    output,     \* its result
    rts,        \* the clientRoundTripper of every client: client -> [userID]
    calls,      \* RoundTrip calls entered and not yet forwarded: set of [client, req]
    wire,       \* requests handed to the inner http.Transport: set of [client, req]
    qcfg,       \* QueryClientConfig of the query client (immutable after Init)
    qnow,       \* wall clock of the query client, time.Now().UTC()
    qc,         \* the run() goroutine of the query client, its locals and ticker
    qgo,        \* the query goroutines of the current runQueries call: set of records
    queriesTotal,           \* CounterVec queries_total: <<result, query>> -> count
    resultsComparedTotal,   \* CounterVec query_results_compared_total, likewise
    snap,       \* history: both counters as they were when runQueries was entered
    orch,       \* main(): [pc, t, tenantsCount, queryEnabled]
    clientState,\* the clients main has constructed: client -> "Idle" | "Running" | "Ticking"
    otherGate,  \* len(writeGate.ch) of another tenant's write client
    hist        \* history of the current writeSeries call: [prevTs, fired, wait, elapsed, late]

writeVars == <<cfg, now, ticker, pc, tick, ts, series, o, wg, gateLen, batches, sent>>

tenantVars == <<rts, calls, wire>>

queryVars == <<qcfg, qnow, qc, qgo, queriesTotal, resultsComparedTotal, snap>>

mainVars == <<orch, clientState, otherGate>>

vars == <<writeVars, input, output, tenantVars, queryVars, mainVars, hist>>

-----------------------------------------------------------------------------
(* Bounds of the model.                                                    *)
MaxSeries == 5          \* SeriesCount ranges over 0..MaxSeries
MaxBatchSize == 2       \* WriteBatchSize ranges over 1..MaxBatchSize
MaxBatches == 3         \* configurations with at most MaxBatches batches per tick
MaxConcurrency == 2     \* WriteConcurrency ranges over 1..MaxConcurrency
MaxTime == 4            \* the clock stops at MaxTime
MaxAlignTs == 12        \* alignment inputs: ts in -MaxAlignTs..MaxAlignTs
MaxInterval == 4        \* alignment and time-range inputs: interval in 1..MaxInterval
MaxNow == 14            \* time-range inputs: now in 2*MaxInterval..MaxNow
MaxAge == 7             \* time-range inputs: QueryMaxAge in 0..MaxAge or HugeAge
MaxWindow == 3002       \* step inputs: windows of 0..MaxWindow write intervals
MaxStepInterval == 2    \* step inputs: writeInterval in 1..MaxStepInterval
UnitsPerMilli == 2      \* resolution of the clock: duration units per millisecond
MaxGrid == 4            \* verification inputs: sample timestamps on grid points 0..MaxGrid
MaxSamplesLen == 3      \* verification inputs: at most MaxSamplesLen samples
MaxExpectedSeries == 2  \* verification inputs: ExpectedSeries in 1..MaxExpectedSeries
MaxCompare == 10        \* comparison inputs: expected in -MaxCompare..MaxCompare tenths
MaxChurnSec == 12       \* churn inputs: t in 0..MaxChurnSec seconds (and half seconds)
MaxChurnPeriodSec == 4  \* churn inputs: churnPeriod in 1..MaxChurnPeriodSec seconds
MaxChurnSeries == 4     \* churn inputs: seriesCount in 1..MaxChurnSeries
MaxLabelSec == 3        \* label inputs: t in 0..MaxLabelSec seconds
MaxLabelSeries == 3     \* label inputs: seriesCount in 0..MaxLabelSeries
MaxExtraLabels == 12    \* label inputs: extraLabelsCount in 0..MaxExtraLabels
MaxLabelChurnSec == 2   \* label inputs: churnPeriod in -1..MaxLabelChurnSec seconds
MaxStatus == 599         \* send inputs: status codes 100..MaxStatus
MaxTripOffset == 4       \* round-trip inputs: units after a grid point of the wave
MaxTimedTime == 5       \* the timed write client: the clock stops at MaxTimedTime
MaxMainTenants == 4     \* main: tenants-count ranges over 1..MaxMainTenants
MaxTenants == 2         \* tenants-count ranges over 1..MaxTenants
MaxInFlight == 3        \* at most MaxInFlight requests are inside RoundTrip at a time
MaxQueryTime == 8       \* the query client's clock stops at MaxQueryTime

WriteIntervals == {2, 3}

-----------------------------------------------------------------------------
(* Go integer arithmetic.                                                  *)

Abs(x) == IF x < 0 THEN -x ELSE x

\* Go's x / y on integers: the quotient truncated toward zero.
GoDiv(x, y) ==
    IF (x >= 0) = (y > 0) THEN Abs(x) \div Abs(y) ELSE -(Abs(x) \div Abs(y))

\* write.go: alignTimestampToInterval.
alignTimestampToInterval(t, interval) == GoDiv(t, interval) * interval


-----------------------------------------------------------------------------
(* Units.  The code counts durations in nanoseconds; the model counts them *)
(* in units of 1/UnitsPerMilli millisecond.                                *)

UnitsPerSecond == 1000 * UnitsPerMilli

\* The nanoseconds of one unit.
NanosPerUnit == (1000 * 1000) \div UnitsPerMilli

\* Decimal inputs are written as integers, Scale to 1.0.
Scale == 10 * 1000 * 1000

\* The element of a set of one element.  An intermediate value of the
\* arithmetic below is bound as the element of such a set where it is used
\* more than once, so that it is computed once.
Only(S) == CHOOSE v \in S : TRUE

\* time.UnixMilli(ms): the Time of a millisecond timestamp.
TimeOfMilli(ms) == ms * UnitsPerMilli

\* t.UnixMilli(): whole milliseconds since the epoch, rounded down.
UnixMilli(t) == t \div UnitsPerMilli

\* 40 * (15 * time.Second): the period of the wave, ten minutes.
SinePeriod == 40 * (15 * UnitsPerSecond)

\* The samples of the model's inputs lie on a grid of one twelfth of the
\* period, 50 seconds, or a few units after it.
GridStep == SinePeriod \div 12

-----------------------------------------------------------------------------
(* float64.  A value is zero or neg * (hi * 2^26 + lo) * 2^exp with the    *)
(* 53-bit significand hi * 2^26 + lo in [2^52, 2^53); every operation      *)
(* gives the exact result rounded to the nearest such value, ties to the   *)
(* even significand (IEEE 754 binary64, as Go's float64 on amd64, which    *)
(* does not fuse a multiplication with an addition).  Subnormal numbers,   *)
(* infinities, NaN and the sign of zero do not occur in the values of the  *)
(* wave and are left out.  The arithmetic works on little-endian sequences *)
(* of 13-bit limbs, which keeps every intermediate value within 32 bits.   *)

\* The radix of the limbs.
Radix == 2 ^ 13

RECURSIVE BigTrim(_)
BigTrim(a) ==
    IF a = << >> THEN << >>
    ELSE IF a[Len(a)] = 0 THEN BigTrim(SubSeq(a, 1, Len(a) - 1)) ELSE a

Limb(a, i) == IF i <= Len(a) THEN a[i] ELSE 0

\* The limbs of the sum of cols[i] * Radix^(i-1), plus c.
RECURSIVE BigCarry(_, _, _)
BigCarry(cols, i, c) ==
    IF i > Len(cols)
    THEN IF c = 0 THEN << >> ELSE <<c % Radix>> \o BigCarry(cols, i, c \div Radix)
    ELSE Only({<<v % Radix>> \o BigCarry(cols, i + 1, v \div Radix) : v \in {cols[i] + c}})

BigOfInt(n) == BigTrim(<<n % Radix, (n \div Radix) % Radix, n \div (Radix * Radix)>>)

BigAdd(a, b) ==
    Only({BigCarry(cols, 1, 0) :
            cols \in {[i \in 1..(IF Len(a) > Len(b) THEN Len(a) ELSE Len(b)) |->
                          Limb(a, i) + Limb(b, i)]}})

\* a - b for a >= b.
BigSub(a, b) ==
    Only({BigTrim(BigCarry(cols, 1, 0)) :
            cols \in {[i \in 1..Len(a) |-> a[i] - Limb(b, i)]}})

RECURSIVE ColSum(_, _, _, _)
ColSum(a, b, k, i) ==
    IF i > Len(a) THEN 0
    ELSE (IF k + 1 - i >= 1 /\ k + 1 - i <= Len(b) THEN a[i] * b[k + 1 - i] ELSE 0)
            + ColSum(a, b, k, i + 1)

BigMul(a, b) ==
    IF a = << >> \/ b = << >> THEN << >>
    ELSE Only({BigTrim(BigCarry(cols, 1, 0)) :
                 cols \in {[k \in 1..(Len(a) + Len(b) - 1) |-> ColSum(a, b, k, 1)]}})

\* -1, 0 or 1 as a < b, a = b or a > b.
RECURSIVE BigCmpFrom(_, _, _)
BigCmpFrom(a, b, i) ==
    IF i = 0 THEN 0
    ELSE IF a[i] < b[i] THEN -1
    ELSE IF a[i] > b[i] THEN 1
    ELSE BigCmpFrom(a, b, i - 1)

BigCmp(a, b) ==
    IF Len(a) < Len(b) THEN -1
    ELSE IF Len(a) > Len(b) THEN 1
    ELSE BigCmpFrom(a, b, Len(a))

\* a * 2^s.
BigShl(a, s) ==
    IF a = << >> THEN << >>
    ELSE Only({BigTrim([i \in 1..(Len(a) + q + 1) |->
                          IF i <= q THEN 0
                          ELSE (Limb(a, i - q) % (Radix \div p)) * p
                                 + (IF i - q >= 2 THEN a[i - q - 1] \div (Radix \div p) ELSE 0)]) :
                 q \in {s \div 13}, p \in {2 ^ (s % 13)}})

\* a divided by 2^s, rounded down.
BigShr(a, s) ==
    IF Len(a) <= s \div 13 THEN << >>
    ELSE Only({BigTrim([i \in 1..(Len(a) - q) |->
                          (a[i + q] \div p) + (Limb(a, i + q + 1) % p) * (Radix \div p)]) :
                 q \in {s \div 13}, p \in {2 ^ (s % 13)}})

\* Bit i of a, counted from 0.
BigBit(a, i) == (Limb(a, (i \div 13) + 1) \div (2 ^ (i % 13))) % 2

\* The s lowest bits of a are zero.
BigLowZero(a, s) ==
    /\ \A i \in 1..(s \div 13) : Limb(a, i) = 0
    /\ Limb(a, (s \div 13) + 1) % (2 ^ (s % 13)) = 0

\* The number of bits of a, for a without leading zero limbs.
BigBitLen(a) ==
    IF a = << >> THEN 0
    ELSE 13 * (Len(a) - 1) + (CHOOSE k \in 1..13 : a[Len(a)] < 2 ^ k /\ a[Len(a)] >= 2 ^ (k - 1))

\* The number with the limbs a[i], a[i+1], ...
RECURSIVE BigToInt(_, _)
BigToInt(a, i) == IF i > Len(a) THEN 0 ELSE a[i] + Radix * BigToInt(a, i + 1)

F64Zero == [neg |-> FALSE, exp |-> 0, hi |-> 0, lo |-> 0]

IsZero(x) == x.hi = 0

\* The significand as limbs.
Significand(x) ==
    <<x.lo % Radix, x.lo \div Radix, x.hi % Radix, (x.hi \div Radix) % Radix, x.hi \div (Radix * Radix)>>

\* The float64 of 53 bits m.
F64Of(neg, m, exp) ==
    [neg |-> neg, exp |-> exp,
     hi |-> Limb(m, 3) + Limb(m, 4) * Radix + Limb(m, 5) * Radix * Radix,
     lo |-> Limb(m, 1) + Limb(m, 2) * Radix]

\* n * 2^exp rounded to float64; sticky says that the exact value is a little
\* more than n * 2^exp (by less than 2^exp).
F64Round(neg, n, exp, sticky) ==
    IF n = << >> THEN F64Zero
    ELSE Only({F64Of(neg, r[1], r[2]) : r \in {
        Only({
            IF s <= 0 THEN <<BigShl(n, -s), exp + s>>
            ELSE Only({
                IF BigBit(n, s - 1) = 1 /\ (sticky \/ ~BigLowZero(n, s - 1) \/ q[1] % 2 = 1)
                THEN Only({IF BigBitLen(up) > 53
                           THEN <<BigShr(up, 1), exp + s + 1>>
                           ELSE <<up, exp + s>> : up \in {BigAdd(q, <<1>>)}})
                ELSE <<q, exp + s>> : q \in {BigShr(n, s)}}) :
            s \in {BigBitLen(n) - 53}})}})

\* float64(n) for an integer n.
F64FromInt(n) == F64Round(n < 0, BigOfInt(IF n < 0 THEN -n ELSE n), 0, FALSE)

F64Neg(x) == IF IsZero(x) THEN x ELSE [x EXCEPT !.neg = ~@]

F64Abs(x) == [x EXCEPT !.neg = FALSE]

\* x * y.
F64MulVal(x, y) ==
    IF IsZero(x) \/ IsZero(y) THEN F64Zero
    ELSE F64Round(x.neg # y.neg, BigMul(Significand(x), Significand(y)),
                  x.exp + y.exp, FALSE)

F64Mul(a, b) == Only({F64MulVal(x, y) : x \in {a}, y \in {b}})

\* x + y for x.exp >= y.exp, neither zero.
F64AddOrdered(x, y) ==
    IF x.exp - y.exp > 60 THEN x
    ELSE Only({
        Only({F64Round(IF x.neg = y.neg \/ c > 0 THEN x.neg ELSE y.neg,
                       IF x.neg = y.neg THEN BigAdd(mx, my)
                       ELSE IF c = 0 THEN << >>
                       ELSE BigSub(IF c > 0 THEN mx ELSE my, IF c > 0 THEN my ELSE mx),
                       y.exp, FALSE) : c \in {BigCmp(mx, my)}}) :
        mx \in {BigShl(Significand(x), x.exp - y.exp)}, my \in {BigTrim(Significand(y))}})

\* x + y.
F64AddVal(x, y) ==
    IF IsZero(x) THEN y
    ELSE IF IsZero(y) THEN x
    ELSE F64AddOrdered(IF x.exp >= y.exp THEN x ELSE y, IF x.exp >= y.exp THEN y ELSE x)

F64Add(a, b) == Only({F64AddVal(x, y) : x \in {a}, y \in {b}})

F64Sub(a, b) == Only({F64AddVal(x, F64Neg(y)) : x \in {a}, y \in {b}})

\* The limb c with c * d <= r < (c + 1) * d, for r < d * Radix and d of 53 bits:
\* the quotient of the leading bits is at most one off.
DivLimb(r, d) ==
    Only({CHOOSE c \in {e - 1, e, e + 1} :
              /\ c >= 0
              /\ BigCmp(BigMul(BigOfInt(c), d), r) <= 0
              /\ BigCmp(BigMul(BigOfInt(c + 1), d), r) > 0 :
          e \in {BigToInt(BigShr(r, 36), 1) \div BigToInt(BigShr(d, 36), 1)}})

\* The quotient of r * Radix^k by d, for r < d, as limbs from the most significant
\* down to the least, followed by the remainder.
RECURSIVE DivLimbs(_, _, _)
DivLimbs(r, d, k) ==
    IF k = 0 THEN <<r>>
    ELSE Only({
        Only({<<c>> \o DivLimbs(BigSub(rw, BigMul(BigOfInt(c), d)), d, k - 1) :
                c \in {DivLimb(rw, d)}}) :
        rw \in {IF r = << >> THEN r ELSE <<0>> \o r}})

Reverse(s) == [i \in 1..Len(s) |-> s[Len(s) + 1 - i]]

\* x / y, y not zero: 66 bits of the quotient of the significands, and whether
\* a remainder is left.
F64DivVal(x, y) ==
    IF IsZero(x) THEN F64Zero
    ELSE Only({
        Only({F64Round(x.neg # y.neg,
                       BigTrim(Reverse(<<IF less THEN 0 ELSE 1>> \o SubSeq(q, 1, 5))),
                       x.exp - y.exp - 65, q[6] # << >>) :
              q \in {DivLimbs(IF less THEN mx ELSE BigSub(mx, my), my, 5)}}) :
        less \in {BigCmp(BigTrim(Significand(x)), BigTrim(Significand(y))) < 0},
        mx \in {BigTrim(Significand(x))}, my \in {BigTrim(Significand(y))}})

F64Div(a, b) == Only({F64DivVal(x, y) : x \in {a}, y \in {b}})

\* x < y.
F64LessVal(x, y) ==
    IF IsZero(y) THEN ~IsZero(x) /\ x.neg
    ELSE IF IsZero(x) THEN ~y.neg
    ELSE IF x.neg # y.neg THEN x.neg
    ELSE LET c == IF x.exp # y.exp
                  THEN (IF x.exp < y.exp THEN -1 ELSE 1)
                  ELSE BigCmp(Significand(x), Significand(y))
         IN  IF x.neg THEN c > 0 ELSE c < 0

F64Less(a, b) == Only({F64LessVal(x, y) : x \in {a}, y \in {b}})

\* uint64(x) for 0 <= x < 2^31: the integer part.
F64Trunc(x) ==
    IF IsZero(x) THEN 0
    ELSE IF x.exp >= 0 THEN BigToInt(BigShl(Significand(x), x.exp), 1)
    ELSE BigToInt(BigShr(Significand(x), -x.exp), 1)


\* math.Pi and 4/math.Pi as float64.
Pi64 == [neg |-> FALSE, exp |-> -51, hi |-> 105414357, lo |-> 4467992]
FourOverPi == [neg |-> FALSE, exp |-> -52, hi |-> 85445659, lo |-> 30001283]

\* math.sin: the three parts of Pi/4 (PI4A, PI4B, PI4C) and the coefficients
\* _sin and _cos of the polynomials.
PI4A == [neg |-> FALSE, exp |-> -53, hi |-> 105414352, lo |-> 0]
PI4B == [neg |-> FALSE, exp |-> -77, hi |-> 85003072, lo |-> 0]
PI4C == [neg |-> FALSE, exp |-> -101, hi |-> 101819942, lo |-> 13390192]

sinCoefficients ==
    << [neg |-> FALSE, exp |-> -85, hi |-> 91635527, lo |-> 64068813],
       [neg |-> TRUE, exp |-> -78, hi |-> 112818538, lo |-> 19472221],
       [neg |-> FALSE, exp |-> -71, hi |-> 96958677, lo |-> 41765025],
       [neg |-> TRUE, exp |-> -65, hi |-> 109078534, lo |-> 29351683],
       [neg |-> FALSE, exp |-> -59, hi |-> 71582788, lo |-> 17889232],
       [neg |-> TRUE, exp |-> -55, hi |-> 89478485, lo |-> 22369608] >>

cosCoefficients ==
    << [neg |-> TRUE, exp |-> -89, hi |-> 104764008, lo |-> 8788635],
       [neg |-> FALSE, exp |-> -81, hi |-> 75212638, lo |-> 55459589],
       [neg |-> TRUE, exp |-> -74, hi |-> 77566943, lo |-> 44846022],
       [neg |-> FALSE, exp |-> -68, hi |-> 109078534, lo |-> 29902069],
       [neg |-> TRUE, exp |-> -62, hi |-> 95443717, lo |-> 46223249],
       [neg |-> FALSE, exp |-> -57, hi |-> 89478485, lo |-> 22369611] >>

\* 1.0 and 0.5 as float64.
F64One == [neg |-> FALSE, exp |-> -52, hi |-> 2 ^ 26, lo |-> 0]
F64Half == [neg |-> FALSE, exp |-> -53, hi |-> 2 ^ 26, lo |-> 0]

\* ((((c[1]*zz + c[2])*zz + c[3])*zz + c[4])*zz + c[5])*zz + c[6].
RECURSIVE Horner(_, _, _)
Horner(c, zz, i) ==
    IF i = 1 THEN c[1] ELSE F64Add(F64Mul(Horner(c, zz, i - 1), zz), c[i])

\* The polynomial of the octant j (0..3) at z, zz = z*z:
\*   1.0 - 0.5*zz + zz*zz*(_cos...)  for j = 1 or 2,
\*   z + z*zz*(_sin...)              otherwise.
sinOctant(j, z, zz) ==
    Only({F64Add(IF cosine THEN F64Sub(F64One, F64Mul(F64Half, zz)) ELSE z,
                 F64Mul(F64Mul(IF cosine THEN zz ELSE z, zz),
                        Horner(IF cosine THEN cosCoefficients ELSE sinCoefficients, zz, 6))) :
          cosine \in {j = 1 \/ j = 2}})

\* math.Sin(x) for 0 <= x < 2^29 and j0 = uint64(x * (4/Pi)).
sinReduced(x, j0) ==
    Only({
        Only({
            Only({
                Only({IF j % 8 > 3 THEN F64Neg(r) ELSE r :
                      r \in {sinOctant((j % 8) % 4, z, zz)}}) :
                zz \in {F64Mul(z, z)}}) :
            z \in {F64Sub(F64Sub(F64Sub(x, F64Mul(y, PI4A)), F64Mul(y, PI4B)),
                          F64Mul(y, PI4C))}}) :
        j \in {IF j0 % 2 = 1 THEN j0 + 1 ELSE j0},
        y \in {F64Add(F64FromInt(j0), IF j0 % 2 = 1 THEN F64One ELSE F64Zero)}})

Sin(a) ==
    Only({IF IsZero(x) THEN x
          ELSE Only({
              Only({IF x.neg THEN F64Neg(r) ELSE r : r \in {sinReduced(F64Abs(x), j0)}}) :
              j0 \in {F64Trunc(F64Mul(F64Abs(x), FourOverPi))}}) : x \in {a}})

\* The float64 of the decimal literal n / Scale.
DecimalFloat(n) == F64Div(F64FromInt(n), F64FromInt(Scale))

-----------------------------------------------------------------------------
(* The wave.                                                               *)

\* float64(t.UnixNano()) for a time t >= 0 in units.
UnixNanoFloat(t) ==
    F64Round(FALSE, BigMul(BigOfInt(t), BigOfInt(NanosPerUnit)), 0, FALSE)

\* period := float64(40 * (15 * time.Second)), in nanoseconds.
sinePeriod ==
    F64Round(FALSE, BigMul(BigOfInt(40 * 15), BigOfInt(1000 * 1000 * 1000)), 0, FALSE)

\* write.go, generateSineWaveValue(t):
\*   radians := float64(t.UnixNano()) / period * 2 * math.Pi
\*   return math.Sin(radians)
generateSineWaveValue(t) ==
    Sin(F64Mul(F64Mul(F64Div(UnixNanoFloat(t), sinePeriod), F64FromInt(2)), Pi64))

\* The instants at which the specifications below evaluate the wave: the
\* first units of the clock, and the grid points with the units around them.
TabulatedInstants ==
    (0..(MaxTime + MaxTimedTime + MaxQueryTime))
    \cup {u \in {g * GridStep + d : g \in 0..MaxGrid,
                                    d \in (-(MaxInterval + UnitsPerMilli))..MaxTripOffset} :
            u >= 0}

\* generateSineWaveValue at those instants, computed once.
SineWaveValues == [t \in TabulatedInstants |-> generateSineWaveValue(t)]

\* generateSineWaveValue(t), looked up where it is tabulated.
SineWaveValueAt(t) ==
    IF t \in TabulatedInstants THEN SineWaveValues[t] ELSE generateSineWaveValue(t)

\* v + v + ... + v, n times: the sum of the samples of n series with the
\* value v.
RECURSIVE F64Sum(_, _)
F64Sum(v, n) == IF n = 0 THEN F64Zero ELSE F64Add(F64Sum(v, n - 1), v)

\* The sums of the samples 0..MaxExpectedSeries series carry at the
\* tabulated instants, computed once.
SineWaveSums ==
    [t \in TabulatedInstants, n \in 0..MaxExpectedSeries |-> F64Sum(SineWaveValues[t], n)]

\* The sum of the samples n series carry at t.
SineWaveSumAt(t, n) ==
    IF t \in TabulatedInstants /\ n \in 0..MaxExpectedSeries
    THEN SineWaveSums[t, n]
    ELSE F64Sum(generateSineWaveValue(t), n)

-----------------------------------------------------------------------------
(* The series generator, as far as the write loop needs it: one series per *)
(* wave id 1..seriesCount, in that order, each with the one sample         *)
(* {Value: generateSineWaveValue(t), Timestamp: t.UnixMilli()}.            *)
SineWaveSeriesAt(t, seriesCount) ==
    [seriesID \in 1..seriesCount |->
        [wave |-> seriesID, timestamp |-> UnixMilli(t),
         value |-> SineWaveValueAt(t)]]

-----------------------------------------------------------------------------
(* The write client: run(), writeSeries() and the batch goroutines.        *)

GateHasRoom_Unbounded == TRUE

GateHasRoom_SharedGate == gateLen + otherGate < cfg.WriteConcurrency

\* gate.Start with context.Background(): blocks until the gate has room.
\* gate.New(cfg.WriteConcurrency) makes the gate's channel with that capacity
\* and Start sends on it: with capacity 0 no Start ever returns.
GateHasRoom == gateLen < cfg.WriteConcurrency

WaitGroupIsZero_NoWait == TRUE

\* wg.Wait() returns once the counter is zero.
WaitGroupIsZero == wg = 0

NextOffset_SkipsOne(off) == off + cfg.WriteBatchSize + 1

NextOffset_Stays(off) == off

\* The loop increment of writeSeries: o += c.cfg.WriteBatchSize.
NextOffset(off) == off + cfg.WriteBatchSize

\* The end of the slice a batch sends: min(o + WriteBatchSize, len(series)).
BatchEnd(off, ser) ==
    IF off + cfg.WriteBatchSize > Len(ser) THEN Len(ser) ELSE off + cfg.WriteBatchSize

\* series[lo:hi], Go's half-open slice with 0-based lo.
SliceOf(ser, lo, hi) == SubSeq(ser, lo + 1, hi)

\* send(): nil iff the call completed with a 2xx status.
\* status 0 stands for a transport error or an expired deadline.
sendErr(status) ==
    IF status = 0 THEN TRUE
    ELSE IF status \div 100 # 2 THEN TRUE
    ELSE FALSE

StatusCodes == {0, 200, 400, 500}

sendError_ServerErrorsOnly(completed, status) ==
    IF ~completed THEN [kind |-> "transport"]
    ELSE IF status \div 100 = 5 THEN [kind |-> "status", status |-> status]
    ELSE [kind |-> "nil"]

\* send(), the error it returns: completed says whether c.client.Do returned
\* a response (no transport failure, no expired deadline), status is the
\* response's StatusCode.
sendError(completed, status) ==
    IF ~completed THEN [kind |-> "transport"]
    ELSE LET err == IF status \div 100 # 2
                    THEN [kind |-> "status", status |-> status]
                    ELSE [kind |-> "nil"]
         IN  IF status \div 100 = 5 THEN err ELSE err

ReleasesPermit_OnSuccessOnly(err) == ~err

\* defer c.writeGate.Done() runs when the goroutine's function returns,
\* whatever error send returned.
ReleasesPermit(err) == TRUE

AfterSend_ExitOnError(err) == IF err THEN "exited" ELSE "returned"

AfterSend_RetryOnError(err) == IF err THEN "spawned" ELSE "returned"

\* Where a batch goroutine continues when c.send has returned err: the error
\* is logged, the function body ends and the deferred calls run.
AfterSend(err) == "returned"

\* No round tripper exists and no request is under way.
\* main() is not modelled: no client has been constructed by it, and no other
\* tenant's write client holds permits.
MainIdle ==
    /\ orch = [pc |-> "idle"]
    /\ clientState = << >>
    /\ otherGate = 0

\* No history is kept.
HistoryIdle == hist = << >>

TenantsIdle ==
    /\ rts = << >>
    /\ calls = {}
    /\ wire = {}

\* The query client does not run.
QueryClientIdle ==
    /\ qcfg = [AdditionalQueries |-> << >>]
    /\ qnow = 0
    /\ qc = [pc |-> "idle"]
    /\ qgo = {}
    /\ queriesTotal = << >>
    /\ resultsComparedTotal = << >>
    /\ snap = << >>

\* The configurations of the write client.
WriteConfigs ==
    {c \in [SeriesCount : 0..MaxSeries,
            WriteBatchSize : 1..MaxBatchSize,
            WriteConcurrency : 1..MaxConcurrency,
            WriteInterval : WriteIntervals] :
        c.SeriesCount <= c.WriteBatchSize * MaxBatches}

\* NewWriteClient and Start with one of the configurations: run() is about to
\* make its first writeSeries call.
WriteClientNew(configs) ==
    /\ cfg \in configs
    /\ now \in 0..(cfg.WriteInterval - 1)
    /\ ticker = [started |-> FALSE, next |-> 0, c |-> 0]
    /\ pc = "call"
    /\ tick = 0
    /\ ts = 0
    /\ series = <<>>
    /\ o = 0
    /\ wg = 0
    /\ gateLen = 0
    /\ batches = {}
    /\ sent = {}

Init ==
    /\ TenantsIdle
    /\ QueryClientIdle
    /\ MainIdle
    /\ HistoryIdle
    /\ WriteClientNew(WriteConfigs)
    /\ input = [fn |-> "none"]
    /\ output = [fn |-> "none"]

\* writeSeries, lines 88-89 and the loop initialisation.
WriteSeriesEnter ==
    /\ pc = "call"
    /\ pc' = "loop"
    /\ tick' = tick + 1
    /\ ts' = alignTimestampToInterval(now, cfg.WriteInterval)
    /\ series' = SineWaveSeriesAt(alignTimestampToInterval(now, cfg.WriteInterval),
                                  cfg.SeriesCount)
    /\ o' = 0
    /\ batches' = {b \in batches : b.st # "done"}
    /\ sent' = {}
    /\ UNCHANGED <<cfg, now, ticker, wg, gateLen, input, output, tenantVars, queryVars, mainVars>>

\* The number of goroutines the current writeSeries call has spawned.
SpawnedInCall == Cardinality({b \in batches : b.tick = tick})

\* One iteration of the for loop: wg.Add(1); go func(o) {...}(o); o += batch size.
\* n tells the goroutines of one call apart; a call spawns at most MaxBatches.
SpawnBatch ==
    /\ pc = "loop"
    /\ o < Len(series)
    /\ SpawnedInCall < MaxBatches
    /\ wg' = wg + 1
    /\ batches' = batches \cup {[tick |-> tick, o |-> o, n |-> SpawnedInCall,
                                 st |-> "spawned",
                                 ser |-> series, err |-> FALSE, sends |-> 0]}
    /\ o' = NextOffset(o)
    /\ UNCHANGED <<cfg, now, ticker, pc, tick, ts, series, gateLen, sent, input, output, tenantVars, queryVars, mainVars>>

\* The loop condition fails: fall through to wg.Wait().
LoopExit ==
    /\ pc = "loop"
    /\ ~(o < Len(series))
    /\ pc' = "wait"
    /\ UNCHANGED <<cfg, now, ticker, tick, ts, series, o, wg, gateLen, batches, sent,
                   input, output, tenantVars, queryVars, mainVars>>

\* wg.Wait() returns; writeSeries returns to run().
WaitReturn ==
    /\ pc = "wait"
    /\ WaitGroupIsZero
    /\ pc' = IF ticker.started THEN "recv" ELSE "newticker"
    /\ UNCHANGED <<cfg, now, ticker, tick, ts, series, o, wg, gateLen, batches, sent,
                   input, output, tenantVars, queryVars, mainVars>>

\* time.NewTicker(c.cfg.WriteInterval).
NewTicker ==
    /\ pc = "newticker"
    /\ ticker' = [started |-> TRUE, next |-> now + cfg.WriteInterval, c |-> 0]
    /\ pc' = "recv"
    /\ UNCHANGED <<cfg, now, tick, ts, series, o, wg, gateLen, batches, sent,
                   input, output, tenantVars, queryVars, mainVars>>

\* for range ticker.C: receive one buffered tick.
RecvTick ==
    /\ pc = "recv"
    /\ ticker.c > 0
    /\ ticker' = [ticker EXCEPT !.c = @ - 1]
    /\ pc' = "call"
    /\ UNCHANGED <<cfg, now, tick, ts, series, o, wg, gateLen, batches, sent,
                   input, output, tenantVars, queryVars, mainVars>>

\* A batch goroutine, lines 102-112: acquire the gate, build the request and
\* enter c.send.
GateStart(b) ==
    /\ b.st = "spawned"
    /\ GateHasRoom
    /\ gateLen' = gateLen + 1
    /\ batches' = (batches \ {b}) \cup {[b EXCEPT !.st = "sending",
                                                   !.sends = @ + 1]}
    /\ sent' = sent \cup {[tick |-> b.tick, o |-> b.o,
                           req |-> SliceOf(b.ser, b.o, BatchEnd(b.o, b.ser))]}
    /\ UNCHANGED <<cfg, now, ticker, pc, tick, ts, series, o, wg, input, output, tenantVars, queryVars, mainVars>>

\* c.send returns (lines 114-117): the error is logged and dropped.
SendReturn(b, status) ==
    /\ b.st = "sending"
    /\ batches' = (batches \ {b}) \cup {[b EXCEPT !.st = AfterSend(sendErr(status)),
                                                   !.err = sendErr(status)]}
    /\ UNCHANGED <<cfg, now, ticker, pc, tick, ts, series, o, wg, gateLen, sent,
                   input, output, tenantVars, queryVars, mainVars>>

\* defer c.writeGate.Done().
GateDone(b) ==
    /\ b.st = "returned"
    /\ gateLen' = IF ReleasesPermit(b.err) THEN gateLen - 1 ELSE gateLen
    /\ batches' = (batches \ {b}) \cup {[b EXCEPT !.st = "released"]}
    /\ UNCHANGED <<cfg, now, ticker, pc, tick, ts, series, o, wg, sent, input, output, tenantVars, queryVars, mainVars>>

\* defer wg.Done(); the goroutine ends.
WgDone(b) ==
    /\ b.st = "released"
    /\ wg' = wg - 1
    /\ batches' = (batches \ {b}) \cup {[b EXCEPT !.st = "done"]}
    /\ UNCHANGED <<cfg, now, ticker, pc, tick, ts, series, o, gateLen, sent,
                   input, output, tenantVars, queryVars, mainVars>>

TickerSend_Queues(c) == c + 1

\* The ticker sends a tick on its channel, which time.NewTicker makes with
\* capacity 1, without blocking: a tick that finds the channel full is dropped.
\* c is the number of ticks in the channel.
TickerSend(c) == IF c < 1 THEN c + 1 ELSE c

\* The clock advances by one unit, up to limit.  A started ticker whose period
\* has elapsed sends a tick.
ClockStep(limit) ==
    /\ now < limit
    /\ now' = now + 1
    /\ ticker' = IF ticker.started /\ now' = ticker.next
                 THEN [ticker EXCEPT !.c = TickerSend(@),
                                     !.next = ticker.next + cfg.WriteInterval]
                 ELSE ticker
    /\ UNCHANGED <<cfg, pc, tick, ts, series, o, wg, gateLen, batches, sent,
                   input, output, tenantVars, queryVars, mainVars>>

Advance == ClockStep(MaxTime)

Next ==
    /\ \/ WriteSeriesEnter
       \/ SpawnBatch
       \/ LoopExit
       \/ WaitReturn
       \/ NewTicker
       \/ RecvTick
       \/ \E b \in batches : GateStart(b)
       \/ \E b \in batches : \E status \in StatusCodes : SendReturn(b, status)
       \/ \E b \in batches : GateDone(b)
       \/ \E b \in batches : WgDone(b)
       \/ Advance
    /\ UNCHANGED hist

Spec == Init /\ [][Next]_vars

-----------------------------------------------------------------------------
(* The write client with the time its steps take.  The clock advances    *)
(* whatever the goroutines do: between any two steps of run(), of           *)
(* writeSeries and of a batch goroutine any time may pass, also between    *)
(* the end of a call of send, which its deadline of WriteInterval (line     *)
(* 143) brings at the latest, and the step of the goroutine that takes its  *)
(* result.  hist records the aligned timestamp of the call before, how      *)
(* often the ticker fired during the current call, how long each of its     *)
(* batches has waited for the gate and for how long its requests have been  *)
(* in flight, and whether some step of the client has ever been kept        *)
(* waiting while the clock advanced.                                        *)

TimedConfigs ==
    {c \in [SeriesCount : {1, 2, 3}, WriteBatchSize : {1},
            WriteConcurrency : {1, 2}, WriteInterval : {1, 2}] :
        \/ c.SeriesCount = 1
        \/ c.SeriesCount = 2 /\ c.WriteInterval = 1
        \/ c.SeriesCount = 3 /\ c.WriteInterval = 1 /\ c.WriteConcurrency = 1}

NoHistory ==
    [prevTs |-> -1, fired |-> 0, wait |-> << >>, elapsed |-> << >>, late |-> FALSE]

TimedInit ==
    /\ TenantsIdle
    /\ QueryClientIdle
    /\ MainIdle
    /\ WriteClientNew(TimedConfigs)
    /\ input = [fn |-> "none"]
    /\ output = [fn |-> "none"]
    /\ hist = NoHistory

\* Some step of the client other than the return of a network call is enabled.
Busy ==
    \/ pc \in {"call", "loop", "newticker"}
    \/ pc = "wait" /\ WaitGroupIsZero
    \/ pc = "recv" /\ ticker.c > 0
    \/ \E b \in batches : \/ b.st \in {"returned", "released"}
                          \/ b.st = "spawned" /\ GateHasRoom

\* send: ctx, cancel := context.WithTimeout(context.Background(),
\* c.cfg.WriteInterval).  Every call in flight is within its deadline: none
\* has ended, with the error of the expired context at the latest, without
\* the goroutine having taken its result.
InDeadline ==
    \A b \in batches :
        b.st = "sending" => hist.elapsed[b.o] < cfg.WriteInterval

\* The history counts no further than it is asked about.
CountTo(n, most) == IF n < most THEN n + 1 ELSE most

TimedEnter ==
    /\ WriteSeriesEnter
    /\ hist' = [NoHistory EXCEPT !.prevTs = IF tick = 0 THEN -1 ELSE ts,
                                 !.late = hist.late]

TimedSpawn ==
    /\ SpawnBatch
    /\ hist' = [hist EXCEPT !.wait = (o :> 0) @@ @]

TimedGateStart(b) ==
    /\ GateStart(b)
    /\ hist' = [hist EXCEPT !.elapsed = (b.o :> 0) @@ @]

TimedSendReturn(b, status) ==
    /\ SendReturn(b, status)
    /\ hist' = [hist EXCEPT !.elapsed = [x \in DOMAIN @ \ {b.o} |-> @[x]]]

\* The clock advances by one unit, whatever the goroutines do.  A step of the
\* client is kept waiting when one is enabled, or when a call of send has
\* reached its deadline and its result has not been taken.
TimedAdvance ==
    /\ ClockStep(MaxTimedTime)
    /\ hist' = [hist EXCEPT
          !.fired = IF ticker.started /\ now' = ticker.next /\ pc \in {"loop", "wait"}
                    THEN CountTo(@, 2) ELSE @,
          !.wait = [x \in DOMAIN @ |->
                      IF \E b \in batches : b.o = x /\ b.tick = tick /\ b.st = "spawned"
                      THEN CountTo(@[x], cfg.WriteInterval + 1) ELSE @[x]],
          !.elapsed = [x \in DOMAIN @ |-> CountTo(@[x], cfg.WriteInterval)],
          !.late = @ \/ Busy \/ ~InDeadline]

TimedNext ==
    \/ TimedEnter
    \/ TimedSpawn
    \/ LoopExit /\ UNCHANGED hist
    \/ WaitReturn /\ UNCHANGED hist
    \/ NewTicker /\ UNCHANGED hist
    \/ RecvTick /\ UNCHANGED hist
    \/ \E b \in batches : TimedGateStart(b)
    \/ \E b \in batches : \E status \in StatusCodes : TimedSendReturn(b, status)
    \/ \E b \in batches : GateDone(b) /\ UNCHANGED hist
    \/ \E b \in batches : WgDone(b) /\ UNCHANGED hist
    \/ TimedAdvance

SpecTimed == TimedInit /\ [][TimedNext]_vars


-----------------------------------------------------------------------------
(* Claims about the write client.                                          *)

\* Batches that hold a permit of the write gate: gate.Start has returned and
\* the deferred gate.Done has not run yet.
HoldingPermit == {b \in batches : b.st \in {"sending", "returned"}}

\* Batch goroutines that have not finished.
Unfinished == {b \in batches : b.st # "done"}

\* C1: at every moment at most WriteConcurrency batches of the client hold the
\* write gate (are between gate.Start and gate.Done, making their network call).
C1_GateBoundsInFlight == Cardinality(HoldingPermit) <= cfg.WriteConcurrency

\* C1 witness: the gate is full while another batch of the same tick waits for it.
C1_Witness ==
    /\ Cardinality(HoldingPermit) = cfg.WriteConcurrency
    /\ \E b \in batches : b.st = "spawned"
    /\ \E b \in batches : b.st = "sending"

\* C2: every unfinished batch belongs to the tick being handled, and when run()
\* is about to call writeSeries again no batch of an earlier tick is unfinished.
C2_TicksDoNotOverlap ==
    /\ \A b \in Unfinished : b.tick = tick
    /\ (pc \in {"call", "recv", "newticker"}) => Unfinished = {}

\* C2 witness: the second tick has a batch in its network call, after a first
\* tick that also dispatched batches.
C2_Witness ==
    /\ tick >= 2
    /\ cfg.SeriesCount > cfg.WriteBatchSize
    /\ \E b \in batches : b.st = "sending" /\ b.tick = tick

\* The requests of the tick being handled.
SentNow == {r \in sent : r.tick = tick}

\* C3: once a tick's batches have all finished, ceil(N/B) requests were sent,
\* each a contiguous slice of 1..B series, every series is in exactly one request,
\* at the position generation gave it; N = 5, B = 2 gives sizes 2, 2, 1.
C3_BatchPartition ==
    (pc = "wait" /\ wg = 0) =>
        LET N == cfg.SeriesCount
            B == cfg.WriteBatchSize
        IN  /\ Len(series) = N
            /\ \E k \in 0..N : /\ (k - 1) * B < N
                               /\ N <= k * B
                               /\ Cardinality(SentNow) = k
            /\ \A r \in SentNow : Len(r.req) >= 1 /\ Len(r.req) <= B
            /\ \A i \in 1..N :
                 /\ Cardinality({r \in SentNow :
                                   r.o < i /\ i <= r.o + Len(r.req)}) = 1
                 /\ \A r \in SentNow :
                      (r.o < i /\ i <= r.o + Len(r.req)) => r.req[i - r.o] = series[i]
            /\ (N = 5 /\ B = 2) =>
                 {<<r.o, Len(r.req)>> : r \in SentNow} = {<<0, 2>>, <<2, 2>>, <<4, 1>>}

\* C3 witness: a finished tick of 5 series in batches of 2.
C3_Witness ==
    /\ pc = "wait" /\ wg = 0
    /\ cfg.SeriesCount = 5 /\ cfg.WriteBatchSize = 2
    /\ Cardinality(SentNow) = 3


-----------------------------------------------------------------------------
(* The query client's pure helpers (query.go, second definition of each).  *)

\* const maxSamples in getQueryStep.
maxSamples == 1000

timeRange_NoGrace(nowT, startTime, writeInterval, maxAge) ==
    LET end   == alignTimestampToInterval(nowT - 2 * writeInterval, writeInterval)
        start == alignTimestampToInterval(nowT - maxAge, writeInterval)
    IN  [start |-> start, end |-> end, ok |-> end > start]

timeRange_OkWhenEqual(nowT, startTime, writeInterval, maxAge) ==
    LET end   == alignTimestampToInterval(nowT - 2 * writeInterval, writeInterval)
        aged  == nowT - maxAge
        grace == startTime + 2 * writeInterval
        start == alignTimestampToInterval(IF grace > aged THEN grace ELSE aged,
                                          writeInterval)
    IN  [start |-> start, end |-> end, ok |-> end >= start]

\* QueryClient.getQueryTimeRange; startTime is c.startTime, writeInterval is
\* c.cfg.ExpectedWriteInterval and maxAge is c.cfg.QueryMaxAge.
getQueryTimeRange(nowT, startTime, writeInterval, maxAge) ==
    LET end   == alignTimestampToInterval(nowT - 2 * writeInterval, writeInterval)
        aged  == nowT - maxAge
        grace == startTime + 2 * writeInterval
        start == alignTimestampToInterval(IF grace > aged THEN grace ELSE aged,
                                          writeInterval)
    IN  [start |-> start, end |-> end, ok |-> end > start]

\* QueryClient.getQueryStep.
getQueryStep(start, end, writeInterval) ==
    LET actualSamples == GoDiv(end - start, writeInterval)
    IN  IF actualSamples <= maxSamples
        THEN writeInterval
        ELSE (GoDiv(GoDiv(end - start, maxSamples), writeInterval) + 1) * writeInterval

-----------------------------------------------------------------------------
(* The verification of the samples a query returns.                        *)

\* const maxComparisonDelta = 0.001.
maxComparisonDelta == F64Div(F64FromInt(1), F64FromInt(1000))

\* compareSampleValues:
\*   delta := math.Abs((actual - expected) / maxComparisonDelta)
\*   return delta < maxComparisonDelta
compareSampleValues(actual, expected) ==
    F64Less(F64Abs(F64Div(F64Sub(actual, expected), maxComparisonDelta)),
            maxComparisonDelta)

\* The value check of verifySineWaveSamples for one sample:
\*   expectedValue := generateSineWaveValue(ts)
\*   compareSampleValues(float64(sample.Value), expectedValue*float64(expectedSeries))
checkSampleValue(sample, expectedSeries) ==
    compareSampleValues(sample.value,
                        F64Mul(generateSineWaveValue(TimeOfMilli(sample.timestamp)),
                               F64FromInt(expectedSeries)))

\* The millisecond timestamp of grid point k.
GridMilli(k) == UnixMilli(k * GridStep)

\* Samples a query may return: a timestamp on the grid and the sum of the
\* samples m series carry there, m = ExpectedSeries or not.
SamplePairs ==
    {[timestamp |-> GridMilli(k),
      value |-> SineWaveSums[TimeOfMilli(GridMilli(k)), m]] :
        k \in 0..MaxGrid, m \in 1..MaxExpectedSeries}

\* One sample of the default query's answer, right or too large by 1.0.
GoodSample(expectedSeries) ==
    [timestamp |-> GridMilli(1),
     value |-> SineWaveSums[TimeOfMilli(GridMilli(1)), expectedSeries]]

BadSample(expectedSeries) ==
    [GoodSample(expectedSeries) EXCEPT !.value = F64Add(@, F64FromInt(1))]

\* The samples of the inputs and answers below, and the outcome of the value
\* check for each of them, computed once.
TabulatedSamples ==
    SamplePairs \cup {BadSample(m) : m \in 1..MaxExpectedSeries}

SampleVerdicts ==
    [s \in TabulatedSamples, m \in 1..MaxExpectedSeries |-> checkSampleValue(s, m)]

\* checkSampleValue(sample, expectedSeries), looked up where it is tabulated.
SampleValueOK(sample, expectedSeries) ==
    IF sample \in TabulatedSamples /\ expectedSeries \in 1..MaxExpectedSeries
    THEN SampleVerdicts[sample, expectedSeries]
    ELSE checkSampleValue(sample, expectedSeries)

NoError == [kind |-> "nil"]

RECURSIVE verifyFrom_NoGapCheck(_, _, _, _)
verifyFrom_NoGapCheck(samples, idx, expectedSeries, expectedStep) ==
    IF idx > Len(samples) THEN NoError
    ELSE
        LET sample == samples[idx]
            t == TimeOfMilli(sample.timestamp)
            expectedValue == SineWaveValueAt(t)
        IN  IF ~SampleValueOK(sample, expectedSeries)
            THEN [kind |-> "value", timestamp |-> sample.timestamp,
                  value |-> sample.value, expected |-> expectedValue]
            ELSE verifyFrom_NoGapCheck(samples, idx + 1, expectedSeries, expectedStep)

\* The loop of verifySineWaveSamples from index idx (1-based) on: the value of
\* each sample is checked first, then its distance to the previous sample.
RECURSIVE verifyFrom(_, _, _, _)
verifyFrom(samples, idx, expectedSeries, expectedStep) ==
    IF idx > Len(samples) THEN NoError
    ELSE
        LET sample == samples[idx]
            t == TimeOfMilli(sample.timestamp)
            expectedValue == SineWaveValueAt(t)
            prevTs == TimeOfMilli(samples[idx - 1].timestamp)
            expectedTs == prevTs + expectedStep
        IN  IF ~SampleValueOK(sample, expectedSeries)
            THEN [kind |-> "value", timestamp |-> sample.timestamp,
                  value |-> sample.value, expected |-> expectedValue]
            ELSE IF idx > 1 /\ UnixMilli(t) # UnixMilli(expectedTs)
            THEN [kind |-> "timestamp", timestamp |-> sample.timestamp,
                  expectedTs |-> UnixMilli(expectedTs), prevTs |-> UnixMilli(prevTs)]
            ELSE verifyFrom(samples, idx + 1, expectedSeries, expectedStep)

\* verifySineWaveSamples(samples, expectedSeries, expectedStep).
verifySineWaveSamples_RequiresSamples(samples, expectedSeries, expectedStep) ==
    IF Len(samples) = 0 THEN [kind |-> "empty"]
    ELSE verifyFrom(samples, 1, expectedSeries, expectedStep)

verifySineWaveSamples(samples, expectedSeries, expectedStep) ==
    verifyFrom(samples, 1, expectedSeries, expectedStep)

\* generateSineWaveSeries gives every series of a round the sample
\* {Value: generateSineWaveValue(t), Timestamp: t.UnixMilli()}; the sum of the
\* seriesCount samples of the round is the sample the default query stands for.
sumOfWrittenSamples(t, seriesCount) ==
    [timestamp |-> UnixMilli(t), value |-> SineWaveSumAt(t, seriesCount)]

\* One write tick at time now and the verification of what it wrote: the
\* aligned time t, the sum of the written samples, the time the verifier
\* rebuilds from the sample's timestamp, the value it expects, its verdict.
writeThenVerify(now_, interval, seriesCount) ==
    LET t == alignTimestampToInterval(now_, interval)
        sample == sumOfWrittenSamples(t, seriesCount)
        rebuilt == TimeOfMilli(sample.timestamp)
    IN  [t |-> t, sample |-> sample, rebuilt |-> rebuilt,
         expected |-> F64Mul(SineWaveValueAt(rebuilt), F64FromInt(seriesCount)),
         err |-> verifySineWaveSamples(<<sample>>, seriesCount, interval)]

churnID_NoShift(tSec, tSub, seriesCount, seriesID, churnPeriod) ==
    GoDiv(tSec + (tSub \div UnitsPerSecond), GoDiv(churnPeriod, UnitsPerSecond))

\* generateSineWaveSeries, the churn id of series seriesID at time t, where t
\* is tSec seconds and tSub units (less than a second) after the epoch:
\*   t.Add((churnPeriod / seriesCount) * seriesID).Unix() / int64(churnPeriod.Seconds())
\* churnPeriod / seriesCount truncates to a whole number of nanoseconds: a
\* whole units and perSeriesNanos nanoseconds, less than a unit.  The shift
\* is seriesID times that; t being a whole number of units, the whole units
\* of the shift decide the second t.Add(shift) lies in.
churnID(tSec, tSub, seriesCount, seriesID, churnPeriod) ==
    LET a == GoDiv(churnPeriod, seriesCount)
        perSeriesNanos == GoDiv((churnPeriod - a * seriesCount) * NanosPerUnit,
                                seriesCount)
        shift == seriesID * a + GoDiv(seriesID * perSeriesNanos, NanosPerUnit)
        unix  == tSec + ((tSub + shift) \div UnitsPerSecond)
    IN  GoDiv(unix, GoDiv(churnPeriod, UnitsPerSecond))

\* The churn ids of one generation round, by series id.
churnIDs(tSec, tSub, seriesCount, churnPeriod) ==
    [seriesID \in 1..seriesCount |->
        churnID(tSec, tSub, seriesCount, seriesID, churnPeriod)]

\* int64(churnPeriod.Seconds()) is the divisor of the churn id: the seconds of
\* the period with the fraction cut off.  When it is 0 the integer division
\* panics (runtime error: integer divide by zero).
churnPanics(churnPeriod) == GoDiv(churnPeriod, UnitsPerSecond) = 0

\* The churn ids of the rounds generated at t and at t + d, or the panic of
\* the first of them.
churnIDsApart(tSec, tSub, seriesCount, churnPeriod, d) ==
    LET later == tSec * UnitsPerSecond + tSub + d
    IN  IF churnPanics(churnPeriod)
        THEN [panic |-> TRUE, before |-> << >>, after |-> << >>]
        ELSE [panic |-> FALSE,
              before |-> churnIDs(tSec, tSub, seriesCount, churnPeriod),
              after |-> churnIDs(later \div UnitsPerSecond, later % UnitsPerSecond,
                                 seriesCount, churnPeriod)]

-----------------------------------------------------------------------------
(* Labels of the generated series.  A Go string is the sequence of its      *)
(* bytes; the model writes a string as the sequence of its byte values, so  *)
(* that the order of strings is the order the code's < computes.            *)

\* "__name__"
StrName == <<95, 95, 110, 97, 109, 101, 95, 95>>
\* "cortex_load_generator_sine_wave"
StrMetric ==
    <<99, 111, 114, 116, 101, 120, 95, 108, 111, 97, 100, 95, 103, 101, 110, 101,
      114, 97, 116, 111, 114, 95, 115, 105, 110, 101, 95, 119, 97, 118, 101>>
\* "wave"
StrWave == <<119, 97, 118, 101>>
\* "extraLabel"
StrExtraLabel == <<101, 120, 116, 114, 97, 76, 97, 98, 101, 108>>
\* "default"
StrDefault == <<100, 101, 102, 97, 117, 108, 116>>
\* "churn"
StrChurn == <<99, 104, 117, 114, 110>>

\* The decimal digits of n >= 0, most significant first.
RECURSIVE Digits(_)
Digits(n) ==
    IF n < 10 THEN <<48 + n>> ELSE Digits(n \div 10) \o <<48 + (n % 10)>>

\* strconv.Itoa(n) and fmt.Sprintf("%d", n): a minus sign, then the digits.
Itoa(n) == IF n < 0 THEN <<45>> \o Digits(-n) ELSE Digits(n)

\* a < b on Go strings: byte-wise lexicographic, a proper prefix is smaller.
RECURSIVE StrLess(_, _)
StrLess(a, b) ==
    IF b = <<>> THEN FALSE
    ELSE IF a = <<>> THEN TRUE
    ELSE IF Head(a) # Head(b) THEN Head(a) < Head(b)
    ELSE StrLess(Tail(a), Tail(b))

\* The less function handed to sort.Slice: by Name, then by Value.
labelLess(x, y) ==
    IF x.Name # y.Name THEN StrLess(x.Name, y.Name) ELSE StrLess(x.Value, y.Value)

RECURSIVE InsertLabel(_, _)
InsertLabel(l, sorted) ==
    IF sorted = <<>> THEN <<l>>
    ELSE IF labelLess(l, Head(sorted)) THEN <<l>> \o sorted
    ELSE <<Head(sorted)>> \o InsertLabel(l, Tail(sorted))

SortLabels_Unsorted(labels) == labels

\* sort.Slice(labels, less): the labels in the order of labelLess.  Labels
\* that labelLess does not order are equal in name and value, so the result
\* does not depend on the sorting algorithm.
RECURSIVE SortLabels(_)
SortLabels(labels) ==
    IF labels = <<>> THEN <<>>
    ELSE InsertLabel(Head(labels), SortLabels(Tail(labels)))

\* The filler labels extraLabel0 .. extraLabel(n-1), value "default".
extraLabels(extraLabelsCount) ==
    [j \in 1..extraLabelsCount |->
        [Name |-> StrExtraLabel \o Itoa(j - 1), Value |-> StrDefault]]

HasChurn_Never(churnPeriod) == FALSE

\* The condition under which a series gets its churn label.
HasChurn(churnPeriod) == churnPeriod > 0

\* The labels of series seriesID, in the order the code appends them.
appendedLabels(tSec, tSub, seriesCount, seriesID, extraLabelsCount, churnPeriod) ==
    << [Name |-> StrName, Value |-> StrMetric],
       [Name |-> StrWave, Value |-> Itoa(seriesID)] >>
    \o extraLabels(extraLabelsCount)
    \o (IF HasChurn(churnPeriod)
        THEN << [Name |-> StrChurn,
                 Value |-> Itoa(churnID(tSec, tSub, seriesCount, seriesID,
                                        churnPeriod))] >>
        ELSE << >>)

\* generateSineWaveSeries: the Labels of the series it returns, by position.
generateSineWaveLabels(tSec, tSub, seriesCount, extraLabelsCount, churnPeriod) ==
    [seriesID \in 1..seriesCount |->
        SortLabels(appendedLabels(tSec, tSub, seriesCount, seriesID,
                                  extraLabelsCount, churnPeriod))]

-----------------------------------------------------------------------------
(* The tenant header.  Every client owns one clientRoundTripper, built by  *)
(* its constructor around an http.Transport; each HTTP request of the      *)
(* client passes through its RoundTrip.  main builds one write client and, *)
(* with query-enabled, one query client per tenant.                        *)

\* "load-generator-"
StrLoadGenerator ==
    <<108, 111, 97, 100, 45, 103, 101, 110, 101, 114, 97, 116, 111, 114, 45>>

\* main: userID := fmt.Sprintf("load-generator-%d", t)
UserID(t) == StrLoadGenerator \o Itoa(t)

defaultQuery == "sum(cortex_load_generator_sine_wave)"

\* http.Header stores a key in its canonical MIME form; header names do not
\* distinguish case.  The key Header.Set("X-Scope-OrgID", ...) writes:
XScopeOrgID == "X-Scope-Orgid"

\* http.Header.Set: the key now has exactly the one value.
HeaderSet(h, k, v) ==
    [x \in DOMAIN h \cup {k} |-> IF x = k THEN <<v>> ELSE h[x]]

\* http.Header.Add: the value is appended to those of the key.
HeaderAdd(h, k, v) ==
    [x \in DOMAIN h \cup {k} |->
        IF x # k THEN h[x]
        ELSE IF k \in DOMAIN h THEN Append(h[k], v) ELSE <<v>>]

\* send: the request as it is handed to c.client.Do.
writeRequest ==
    [kind |-> "write", query |-> "",
     Header |-> HeaderSet(HeaderSet(HeaderSet(HeaderAdd(<< >>,
                    "Content-Encoding", "snappy"),
                    "Content-Type", "application/x-protobuf"),
                    "User-Agent", "cortex-load-generator"),
                    "X-Prometheus-Remote-Write-Version", "0.1.0")]

\* runQuery: the request the Prometheus API client builds for QueryRange, a
\* form-encoded POST, as it is handed to the configured RoundTripper.
queryRequest(q) ==
    [kind |-> "query", query |-> q,
     Header |-> HeaderSet(<< >>, "Content-Type", "application/x-www-form-urlencoded")]

\* cloneRequest: a copy of the request with a Header map of its own.
cloneRequest(r) == [r EXCEPT !.Header = [k \in DOMAIN r.Header |-> r.Header[k]]]

RoundTrip_NoTenant(rt, req) == cloneRequest(req)

\* clientRoundTripper.RoundTrip: the request handed to the inner transport.
RoundTrip(rt, req) ==
    LET r2 == cloneRequest(req)
    IN  [r2 EXCEPT !.Header = HeaderSet(@, XScopeOrgID, rt.userID)]

\* The memory RoundTrip works on: the Header maps, each from a key to the
\* slice that holds its values, and the slices.  A request refers to its
\* Header map and a map to its slices by their places in the two sequences.
HeapOf(req) ==
    LET keys == DOMAIN req.Header
        place == CHOOSE f \in [keys -> 1..Cardinality(keys)] :
                    \A k1, k2 \in keys : k1 # k2 => f[k1] # f[k2]
    IN  [maps |-> <<place>>,
         slices |-> [i \in 1..Cardinality(keys) |->
                        req.Header[CHOOSE k \in keys : place[k] = i]]]

\* The keys and values of the Header map at place a.
HeaderAt(heap, a) ==
    [k \in DOMAIN heap.maps[a] |-> heap.slices[heap.maps[a][k]]]

\* cloneRequest on the memory: r2.Header = make(http.Header), then
\* r2.Header[k] = s for every key, so the new map refers to the slices of the
\* old one.  The new map is the last of heap.maps.
cloneRequestAt(heap, a) ==
    [heap EXCEPT !.maps = Append(@, [k \in DOMAIN heap.maps[a] |-> heap.maps[a][k]])]

\* Header.Set on the memory: h[key] = []string{value}, a new slice.
HeaderSetAt(heap, a, k, v) ==
    [maps |-> [heap.maps EXCEPT ![a] =
                  [x \in DOMAIN heap.maps[a] \cup {k} |->
                      IF x = k THEN Len(heap.slices) + 1 ELSE heap.maps[a][x]]],
     slices |-> Append(heap.slices, <<v>>)]

RoundTripAt_InPlace(rt, heap, a) ==
    [heap |-> HeaderSetAt(heap, a, XScopeOrgID, rt.userID), sent |-> a]

\* clientRoundTripper.RoundTrip on the memory: the memory after the call and
\* the place of the Header of the request handed to the inner transport.
RoundTripAt(rt, heap, a) ==
    LET cloned == cloneRequestAt(heap, a)
        a2 == Len(cloned.maps)
    IN  [heap |-> HeaderSetAt(cloned, a2, XScopeOrgID, rt.userID), sent |-> a2]

-----------------------------------------------------------------------------
(* The pure functions applied to inputs drawn from bounded sets.  The       *)
(* write client does not run in this specification.                         *)

\* A QueryMaxAge far larger than every time of the model.
HugeAge == 1000 * MaxNow

AlignInputs ==
    [fn : {"align"}, t : (-MaxAlignTs)..MaxAlignTs, interval : 1..MaxInterval]

\* Wall-clock times lie after the epoch by more than two write intervals, and
\* a client is constructed before it runs: startTime <= now.
TimeRangeInputs ==
    {in \in [fn : {"timeRange"}, now : (2 * MaxInterval)..MaxNow,
             startTime : 0..MaxNow, interval : 1..MaxInterval,
             maxAge : (0..MaxAge) \cup {HugeAge}] :
        in.startTime <= in.now}

\* Windows [start, end] as getQueryTimeRange returns them: both aligned.
StepInputs ==
    [fn : {"step"}, startN : 0..1, samples : 0..MaxWindow, interval : 1..MaxStepInterval]

SampleSeqs == UNION {[1..n -> SamplePairs] : n \in 0..MaxSamplesLen}

\* The step is one or two grid steps, a whole number of milliseconds.
VerifyInputs ==
    [fn : {"verify"}, samples : SampleSeqs, expectedSeries : 1..MaxExpectedSeries,
     expectedStep : {GridStep, 2 * GridStep}]

\* The decimals of a comparison, in Scale units: expected is a number of
\* tenths; actual equals it, deviates from it by a relative 0.0001 or 0.01,
\* up or down, or lies 0.000001 above or below it.
CompareInputs ==
    {[fn |-> "compare", expected |-> k * (Scale \div 10),
      actual |-> k * (Scale \div 10) + d * k * (Scale \div 100000)] :
        k \in (-MaxCompare)..MaxCompare, d \in {0, 1, -1, 100, -100}}
    \cup
    {[fn |-> "compare", expected |-> k * (Scale \div 10),
      actual |-> k * (Scale \div 10) + d * (Scale \div 1000000)] :
        k \in (-MaxCompare)..MaxCompare, d \in {1, -1}}

\* The twelve timestamps of TestGenerateSineWaveSeries_WithChurningSeries:
\* 2023-06-29T00:00:00Z and the eleven that follow at 10 seconds' distance.
TestStart == 1687996800

ChurnTable ==
    << <<28133280, 28133280, 28133281>>, <<28133280, 28133280, 28133281>>,
       <<28133280, 28133281, 28133281>>, <<28133280, 28133281, 28133281>>,
       <<28133281, 28133281, 28133281>>, <<28133281, 28133281, 28133281>>,
       <<28133281, 28133281, 28133282>>, <<28133281, 28133281, 28133282>>,
       <<28133281, 28133282, 28133282>>, <<28133281, 28133282, 28133282>>,
       <<28133282, 28133282, 28133282>>, <<28133282, 28133282, 28133282>> >>

\* Churn periods are whole seconds here.
ChurnInputs ==
    [fn : {"churn"}, tSec : 0..MaxChurnSec, tSub : {0, UnitsPerSecond \div 2},
     seriesCount : 1..MaxChurnSeries,
     churnPeriod : {p * UnitsPerSecond : p \in 1..MaxChurnPeriodSec}]
    \cup
    [fn : {"churn"}, tSec : {TestStart + 10 * k : k \in 0..11}, tSub : {0},
     seriesCount : {3}, churnPeriod : {60 * UnitsPerSecond}]

\* Two generation rounds one churn period apart; the period is a whole number
\* of seconds, half a second or a second and a half.
ChurnPeriods ==
    {p * UnitsPerSecond : p \in 1..MaxChurnPeriodSec}
        \cup {UnitsPerSecond \div 2, (3 * UnitsPerSecond) \div 2}

ChurnStepInputs ==
    [fn : {"churnStep"}, tSec : 0..MaxChurnSec, tSub : {0, UnitsPerSecond \div 2},
     seriesCount : 1..MaxChurnSeries, churnPeriod : ChurnPeriods]

\* Write ticks shortly after a grid point of the wave, with write intervals of
\* half a millisecond and its multiples; the query client expects the series
\* the write client writes (generator.go: ExpectedSeries = SeriesCount).
RoundTripInputs ==
    [fn : {"roundtrip"},
     now : {g * GridStep + d : g \in 0..MaxGrid, d \in 0..MaxTripOffset},
     interval : 1..MaxInterval, seriesCount : 0..MaxExpectedSeries]

\* Generation rounds: up to MaxLabelSeries series, up to MaxExtraLabels filler
\* labels (more than ten), a churn period of whole seconds, zero or negative.
LabelInputs ==
    [fn : {"labels"}, tSec : 0..MaxLabelSec, tSub : {0},
     seriesCount : 0..MaxLabelSeries, extraLabelsCount : 0..MaxExtraLabels,
     churnPeriod : {p * UnitsPerSecond : p \in (-1)..MaxLabelChurnSec}]

\* Requests passing through the RoundTrip of a tenant's client: those the
\* clients build, and the same with a tenant header already set by the caller.
CallerRequests ==
    LET built == {writeRequest, queryRequest(defaultQuery), queryRequest("up")}
    IN  built \cup {[r EXCEPT !.Header = HeaderSet(@, XScopeOrgID, UserID(t))] :
                        r \in built, t \in 1..MaxTenants}

CloneInputs == [fn : {"clone"}, tenant : 1..MaxTenants, req : CallerRequests]

\* The outcomes of the HTTP call of send: a response with a status code, or none.
SendInputs == [fn : {"send"}, completed : BOOLEAN, status : 100..MaxStatus]

FnInputs ==
    SendInputs \cup AlignInputs \cup TimeRangeInputs \cup StepInputs \cup VerifyInputs
        \cup CompareInputs \cup ChurnInputs \cup LabelInputs \cup ChurnStepInputs
        \cup RoundTripInputs \cup CloneInputs

WriteClientIdle ==
    /\ cfg = [SeriesCount |-> 0, WriteBatchSize |-> 1, WriteConcurrency |-> 1,
              WriteInterval |-> 1]
    /\ now = 0
    /\ ticker = [started |-> FALSE, next |-> 0, c |-> 0]
    /\ pc = "idle"
    /\ tick = 0
    /\ ts = 0
    /\ series = <<>>
    /\ o = 0
    /\ wg = 0
    /\ gateLen = 0
    /\ batches = {}
    /\ sent = {}

FnInit ==
    /\ WriteClientIdle
    /\ TenantsIdle
    /\ QueryClientIdle
    /\ MainIdle
    /\ HistoryIdle
    /\ input \in FnInputs
    /\ output = [fn |-> "none"]

CallAlign ==
    /\ input.fn = "align" /\ output.fn = "none"
    /\ output' = [fn |-> "align",
                  a |-> alignTimestampToInterval(input.t, input.interval)]
    /\ UNCHANGED <<writeVars, input, tenantVars, queryVars, mainVars>>

CallGetQueryTimeRange ==
    /\ input.fn = "timeRange" /\ output.fn = "none"
    /\ output' = [fn |-> "timeRange",
                  r |-> getQueryTimeRange(input.now, input.startTime,
                                          input.interval, input.maxAge)]
    /\ UNCHANGED <<writeVars, input, tenantVars, queryVars, mainVars>>

CallGetQueryStep ==
    /\ input.fn = "step" /\ output.fn = "none"
    /\ output' = [fn |-> "step",
                  step |-> getQueryStep(input.startN * input.interval,
                                        (input.startN + input.samples) * input.interval,
                                        input.interval)]
    /\ UNCHANGED <<writeVars, input, tenantVars, queryVars, mainVars>>

CallVerifySineWaveSamples ==
    /\ input.fn = "verify" /\ output.fn = "none"
    /\ output' = [fn |-> "verify",
                  err |-> verifySineWaveSamples(input.samples, input.expectedSeries,
                                                input.expectedStep)]
    /\ UNCHANGED <<writeVars, input, tenantVars, queryVars, mainVars>>

CallCompareSampleValues ==
    /\ input.fn = "compare" /\ output.fn = "none"
    /\ output' = [fn |-> "compare",
                  ok |-> compareSampleValues(DecimalFloat(input.actual),
                                             DecimalFloat(input.expected))]
    /\ UNCHANGED <<writeVars, input, tenantVars, queryVars, mainVars>>

CallChurnIDs ==
    /\ input.fn = "churn" /\ output.fn = "none"
    /\ output' = [fn |-> "churn",
                  ids |-> churnIDs(input.tSec, input.tSub, input.seriesCount,
                                   input.churnPeriod)]
    /\ UNCHANGED <<writeVars, input, tenantVars, queryVars, mainVars>>

CallChurnStep ==
    /\ input.fn = "churnStep" /\ output.fn = "none"
    /\ LET r == churnIDsApart(input.tSec, input.tSub, input.seriesCount,
                               input.churnPeriod, input.churnPeriod)
       IN  output' = [fn |-> "churnStep", panic |-> r.panic,
                      before |-> r.before, after |-> r.after]
    /\ UNCHANGED <<writeVars, input, tenantVars, queryVars, mainVars>>

CallWriteThenVerify ==
    /\ input.fn = "roundtrip" /\ output.fn = "none"
    /\ LET r == writeThenVerify(input.now, input.interval, input.seriesCount)
       IN  output' = [fn |-> "roundtrip", t |-> r.t, sample |-> r.sample,
                      rebuilt |-> r.rebuilt, expected |-> r.expected,
                      err |-> r.err]
    /\ UNCHANGED <<writeVars, input, tenantVars, queryVars, mainVars>>

CallGenerateSineWaveSeries ==
    /\ input.fn = "labels" /\ output.fn = "none"
    /\ output' = [fn |-> "labels",
                  labels |-> generateSineWaveLabels(input.tSec, input.tSub,
                                 input.seriesCount, input.extraLabelsCount,
                                 input.churnPeriod)]
    /\ UNCHANGED <<writeVars, input, tenantVars, queryVars, mainVars>>

\* RoundTrip of the client of input.tenant on input.req: the Header of the
\* caller's request after the call and that of the request handed on.
CallRoundTrip ==
    /\ input.fn = "clone" /\ output.fn = "none"
    /\ LET r == RoundTripAt([userID |-> UserID(input.tenant)], HeapOf(input.req), 1)
       IN  output' = [fn |-> "clone", caller |-> HeaderAt(r.heap, 1),
                      sent |-> HeaderAt(r.heap, r.sent)]
    /\ UNCHANGED <<writeVars, input, tenantVars, queryVars, mainVars>>

CallSend ==
    /\ input.fn = "send" /\ output.fn = "none"
    /\ output' = [fn |-> "send", err |-> sendError(input.completed, input.status)]
    /\ UNCHANGED <<writeVars, input, tenantVars, queryVars, mainVars>>

FnNext ==
    /\ \/ CallSend
       \/ CallGenerateSineWaveSeries
       \/ CallAlign
       \/ CallGetQueryTimeRange
       \/ CallGetQueryStep
       \/ CallVerifySineWaveSamples
       \/ CallCompareSampleValues
       \/ CallChurnIDs
       \/ CallChurnStep
       \/ CallWriteThenVerify
       \/ CallRoundTrip
    /\ UNCHANGED hist

SpecFn == FnInit /\ [][FnNext]_vars


-----------------------------------------------------------------------------
(* Claims about alignment, the query window and the query step.            *)

\* C4 as stated: for every ts, negative ones included, and every positive
\* interval, a = alignTimestampToInterval(ts, interval) satisfies
\* a <= ts < a + interval and a mod interval = 0.
C4_AlignFloorsEveryTs ==
    output.fn = "align" =>
        /\ output.a <= input.t
        /\ input.t < output.a + input.interval
        /\ output.a % input.interval = 0

\* What the code does (C4): the result is always a multiple of the interval; for
\* ts >= 0 it is the multiple at or below ts (a <= ts < a + interval); for
\* ts < 0 the division truncates toward zero, so it is the multiple at or above
\* ts (ts <= a < ts + interval).
AlignTruncatesTowardZero ==
    output.fn = "align" =>
        /\ output.a % input.interval = 0
        /\ input.t >= 0 => (output.a <= input.t /\ input.t < output.a + input.interval)
        /\ input.t < 0 => (input.t <= output.a /\ output.a < input.t + input.interval)

\* The unaligned start of the window: max(now - QueryMaxAge, startTime + 2W).
RawStart(in) ==
    IF in.now - in.maxAge >= in.startTime + 2 * in.interval
    THEN in.now - in.maxAge
    ELSE in.startTime + 2 * in.interval

\* C5: getQueryTimeRange returns end = now - 2W aligned down, start =
\* max(now - QueryMaxAge, startTime + 2W) aligned down, both on a WriteInterval
\* boundary, and ok holds exactly when end is strictly after start.
C5_QueryTimeRange ==
    output.fn = "timeRange" =>
        LET W == input.interval
            r == output.r
        IN  /\ r.end % W = 0
            /\ r.end <= input.now - 2 * W
            /\ input.now - 2 * W < r.end + W
            /\ r.start % W = 0
            /\ r.start <= RawStart(input)
            /\ RawStart(input) < r.start + W
            /\ r.ok = (r.end > r.start)

\* C5 witness: a window bounded by QueryMaxAge, off the grid, that is eligible.
C5_Witness ==
    /\ output.fn = "timeRange"
    /\ output.r.ok
    /\ input.now - input.maxAge > input.startTime + 2 * input.interval
    /\ output.r.start < RawStart(input)
    /\ output.r.end < input.now - 2 * input.interval

\* C6: when now = startTime, getQueryTimeRange reports ok = FALSE, for every
\* positive write interval and every QueryMaxAge (0 and very large included).
C6_NoWindowAtStart ==
    (output.fn = "timeRange" /\ input.now = input.startTime) => ~output.r.ok

\* C6 witness: a call at client start with a very large QueryMaxAge.
C6_Witness ==
    /\ output.fn = "timeRange"
    /\ input.now = input.startTime
    /\ input.maxAge = HugeAge
    /\ input.interval > 1
    /\ ~output.r.ok

\* The window length of a step input, in write intervals.
StepWindow == input.samples * input.interval

\* C7 as stated: the step is writeInterval when (end-start)/writeInterval <= 1000,
\* and otherwise the smallest multiple m * writeInterval, m >= 1, with
\* (end-start) / (m * writeInterval) <= 1000, for every aligned window.
C7_StepIsSmallestMultiple ==
    output.fn = "step" =>
        IF input.samples <= 1000
        THEN output.step = input.interval
        ELSE \E m \in 1..input.samples :
                /\ output.step = m * input.interval
                /\ StepWindow <= 1000 * m * input.interval
                /\ StepWindow > 1000 * (m - 1) * input.interval

\* What the code does (C7): above 1000 samples the step is the smallest multiple
\* m * writeInterval strictly greater than (end-start)/1000, which is one
\* writeInterval more than the smallest sufficient multiple when the window is
\* an exact multiple of 1000 * writeInterval.
StepIsNextMultipleAbove ==
    output.fn = "step" =>
        IF input.samples <= 1000
        THEN output.step = input.interval
        ELSE \E m \in 1..input.samples :
                /\ output.step = m * input.interval
                /\ StepWindow < 1000 * m * input.interval
                /\ StepWindow >= 1000 * (m - 1) * input.interval


-----------------------------------------------------------------------------
(* Claims about verification, comparison and churn.                        *)

\* The step of a verification input in milliseconds.
StepMilli == UnixMilli(input.expectedStep)

\* Indices of samples that are not exactly one step after their predecessor.
GapAt ==
    {i \in 2..Len(input.samples) :
        input.samples[i].timestamp # input.samples[i - 1].timestamp + StepMilli}

\* Every sample has the sum of the values ExpectedSeries series carry at its
\* timestamp.
AllValuesCorrect ==
    \A i \in 1..Len(input.samples) :
        input.samples[i].value =
            SineWaveSumAt(TimeOfMilli(input.samples[i].timestamp),
                          input.expectedSeries)

\* C8: verifySineWaveSamples fails whenever some sample is not exactly one step
\* after its predecessor; when all values are correct the failure names the
\* first such sample's timestamp, the expected timestamp and the previous
\* timestamp; with no gap and correct values it passes.
C8_GapDetection ==
    output.fn = "verify" =>
        /\ GapAt # {} => output.err.kind # "nil"
        /\ (GapAt # {} /\ AllValuesCorrect) =>
             \E i \in GapAt :
                /\ \A j \in GapAt : i <= j
                /\ output.err = [kind |-> "timestamp",
                                 timestamp |-> input.samples[i].timestamp,
                                 expectedTs |-> input.samples[i - 1].timestamp + StepMilli,
                                 prevTs |-> input.samples[i - 1].timestamp]
        /\ (GapAt = {} /\ AllValuesCorrect) => output.err.kind = "nil"

\* C8 witness: three correctly valued samples with the middle timestamp missing.
C8_Witness ==
    /\ output.fn = "verify"
    /\ Len(input.samples) = 2
    /\ AllValuesCorrect
    /\ input.samples[2].timestamp = input.samples[1].timestamp + 2 * StepMilli
    /\ ~IsZero(input.samples[1].value)
    /\ output.err.kind = "timestamp"

\* C9 as stated: compareSampleValues accepts actual = expected, accepts a
\* relative deviation of 0.0001 and rejects a relative deviation of 0.01.
C9_RelativeTolerance ==
    output.fn = "compare" =>
        LET diff == Abs(input.actual - input.expected)
        IN  /\ diff = 0 => output.ok
            /\ (diff # 0 /\ diff * 10000 = Abs(input.expected)) => output.ok
            /\ (diff # 0 /\ diff * 100 = Abs(input.expected)) => ~output.ok

\* What the code does (C9): it accepts the differences below
\* maxComparisonDelta squared (0.000001) and rejects those above it, whatever
\* the expected value; a difference of 0.000001 between the decimals is
\* accepted or rejected as the float64 arithmetic rounds it.
AbsoluteTolerance ==
    output.fn = "compare" =>
        LET diff == Abs(input.actual - input.expected)
        IN  /\ diff < Scale \div (1000 * 1000) => output.ok
            /\ diff > Scale \div (1000 * 1000) => ~output.ok

\* compareSampleValues(1.000001, 1.0) is true.
BoundaryAccepted ==
    /\ output.fn = "compare"
    /\ input.expected = Scale /\ input.actual = Scale + Scale \div (1000 * 1000)
    /\ output.ok

\* compareSampleValues(0.000001, 0.0) is false.
BoundaryRejected ==
    /\ output.fn = "compare"
    /\ input.expected = 0 /\ input.actual = Scale \div (1000 * 1000)
    /\ ~output.ok

\* The churn period of a churn input is a whole number of seconds.
WholeSeconds == input.churnPeriod % UnitsPerSecond = 0

\* The time of a churn input shifted for series i, in units.
ShiftedTime(i) ==
    input.tSec * UnitsPerSecond + input.tSub
        + (input.churnPeriod \div input.seriesCount) * i

\* C10: with a churn period of whole seconds, the churn id of series i at t is
\* floor((t + (churnPeriod/seriesCount) * i) / churnPeriod); within a round the
\* ids do not decrease with the series index and consecutive ones differ by at
\* most 1; seriesCount = 3, churnPeriod = 60s give the table of the test.
C10_ChurnStaggering ==
    (output.fn = "churn" /\ WholeSeconds) =>
        LET N == input.seriesCount
            ids == output.ids
        IN  /\ DOMAIN ids = 1..N
            /\ \A i \in 1..(N - 1) : ids[i] <= ids[i + 1] /\ ids[i + 1] <= ids[i] + 1
            /\ input.tSec <= MaxChurnSec + 1 =>
                 \A i \in 1..N :
                    /\ ids[i] * input.churnPeriod <= ShiftedTime(i)
                    /\ ShiftedTime(i) < (ids[i] + 1) * input.churnPeriod
            /\ input.tSec >= TestStart =>
                 \E k \in 0..11 : /\ input.tSec = TestStart + 10 * k
                                  /\ ids = ChurnTable[k + 1]

\* C10 witness: the third timestamp of the test, where series 2 has moved on
\* to the next churn id and series 1 has not.
C10_Witness ==
    /\ output.fn = "churn"
    /\ input.tSec = TestStart + 20
    /\ output.ids = <<28133280, 28133281, 28133281>>

-----------------------------------------------------------------------------
(* Claims about the labels of the generated series.                        *)

\* The labels of a label sequence, as a set.
LabelSet(L) == {L[i] : i \in 1..Len(L)}

\* C11: for every seriesCount, extraLabelsCount (eleven and more included) and
\* churnPeriod, every series generateSineWaveSeries returns has its labels
\* strictly increasing by (name, value), no label name occurs twice in a
\* series, and two series of one round never have the same label set.
C11_LabelsStrictlySorted ==
    output.fn = "labels" =>
        /\ \A s \in 1..Len(output.labels) :
              LET L == output.labels[s]
              IN  /\ \A i \in 1..(Len(L) - 1) :
                        \/ StrLess(L[i].Name, L[i + 1].Name)
                        \/ /\ L[i].Name = L[i + 1].Name
                           /\ StrLess(L[i].Value, L[i + 1].Value)
                  /\ \A i, j \in 1..Len(L) : i # j => L[i].Name # L[j].Name
        /\ \A s1, s2 \in 1..Len(output.labels) :
              s1 # s2 => LabelSet(output.labels[s1]) # LabelSet(output.labels[s2])

\* C11 witness: a round of several churning series with more than ten filler
\* labels, in which extraLabel10 stands before extraLabel2.
C11_Witness ==
    /\ output.fn = "labels"
    /\ Len(output.labels) >= 2
    /\ input.churnPeriod > 0
    /\ \E i, j \in 1..Len(output.labels[1]) :
          /\ i < j
          /\ output.labels[1][i].Name = StrExtraLabel \o <<49, 48>>
          /\ output.labels[1][j].Name = StrExtraLabel \o <<50>>

\* The labels a series without churn is to carry: __name__, wave = seriesID
\* and the filler labels extraLabel0 .. extraLabel(n-1).
PlainLabels(seriesID, extraLabelsCount) ==
    {[Name |-> StrName, Value |-> StrMetric],
     [Name |-> StrWave, Value |-> Itoa(seriesID)]}
    \cup {[Name |-> StrExtraLabel \o Itoa(j), Value |-> StrDefault] :
            j \in 0..(extraLabelsCount - 1)}

\* C12: a generated series carries a churn label exactly when churnPeriod > 0;
\* with churnPeriod = 0 its labels are exactly __name__, wave and the
\* extraLabelsCount filler labels, whatever the timestamp.
C12_ChurnLabelIffPeriod ==
    output.fn = "labels" =>
        \A s \in 1..Len(output.labels) :
            LET L == output.labels[s]
            IN  /\ (\E i \in 1..Len(L) : L[i].Name = StrChurn)
                       <=> (input.churnPeriod > 0)
                /\ input.churnPeriod = 0 =>
                       /\ Len(L) = 2 + input.extraLabelsCount
                       /\ LabelSet(L) = PlainLabels(s, input.extraLabelsCount)

\* C12 witness: a round without churn, with filler labels, after the epoch.
C12_Witness ==
    /\ output.fn = "labels"
    /\ input.churnPeriod = 0
    /\ input.tSec > 0
    /\ input.extraLabelsCount >= 2
    /\ Len(output.labels) >= 2
    /\ LabelSet(output.labels[2]) = PlainLabels(2, input.extraLabelsCount)

-----------------------------------------------------------------------------
(* The clients of the tenants and the requests they hand to RoundTrip.      *)

\* The clients main builds for tenantsCount tenants.
Clients(tenantsCount, queryEnabled) ==
    [tenant : 1..tenantsCount,
     kind : IF queryEnabled THEN {"write", "query"} ELSE {"write"}]

\* The write client does not tick and no query client counts; the round
\* trippers are those NewWriteClient and NewQueryClient build.
TenantsInit ==
    /\ WriteClientIdle
    /\ QueryClientIdle
    /\ MainIdle
    /\ HistoryIdle
    /\ input = [fn |-> "none"]
    /\ output = [fn |-> "none"]
    /\ \E tenantsCount \in 1..MaxTenants, queryEnabled \in BOOLEAN :
          rts = [c \in Clients(tenantsCount, queryEnabled) |->
                    [userID |-> UserID(c.tenant)]]
    /\ calls = {}
    /\ wire = {}

\* A batch goroutine of a write client calls c.client.Do.
WriteClientDo(c) ==
    /\ c.kind = "write"
    /\ Cardinality(calls) < MaxInFlight
    /\ calls' = calls \cup {[client |-> c, req |-> writeRequest]}
    /\ UNCHANGED <<writeVars, input, output, rts, wire, queryVars, mainVars>>

\* A query goroutine of a query client calls QueryRange.
QueryClientDo(c, q) ==
    /\ c.kind = "query"
    /\ Cardinality(calls) < MaxInFlight
    /\ calls' = calls \cup {[client |-> c, req |-> queryRequest(q)]}
    /\ UNCHANGED <<writeVars, input, output, rts, wire, queryVars, mainVars>>

\* The client's RoundTrip clones the request, sets the header and hands the
\* clone to the inner transport.
RoundTripForward(call) ==
    /\ wire' = wire \cup {[client |-> call.client,
                           req |-> RoundTrip(rts[call.client], call.req)]}
    /\ calls' = calls \ {call}
    /\ UNCHANGED <<writeVars, input, output, rts, queryVars, mainVars>>

\* The queries of a query client here: the default and one additional query.
TenantQueries == {defaultQuery, "up"}

TenantsNext ==
    /\ \/ \E c \in DOMAIN rts : WriteClientDo(c)
       \/ \E c \in DOMAIN rts, q \in TenantQueries : QueryClientDo(c, q)
       \/ \E call \in calls : RoundTripForward(call)
    /\ UNCHANGED hist

SpecTenants == TenantsInit /\ [][TenantsNext]_vars

\* C13: every request a write or query client (default and additional
\* queries) hands to the network carries X-Scope-OrgID with exactly the
\* UserID of its own client, and never the UserID of another tenant.
C13_TenantHeader ==
    \A w \in wire :
        /\ XScopeOrgID \in DOMAIN w.req.Header
        /\ w.req.Header[XScopeOrgID] = <<UserID(w.client.tenant)>>
        /\ \A t \in 1..MaxTenants :
              t # w.client.tenant =>
                  UserID(t) \notin {w.req.Header[XScopeOrgID][i] :
                                      i \in 1..Len(w.req.Header[XScopeOrgID])}

\* C13 witness: two tenants have sent a write, the default query and an
\* additional query each.
C13_Witness ==
    \A t \in 1..2 :
        /\ \E w \in wire : w.client.tenant = t /\ w.req.kind = "write"
        /\ \E w \in wire : w.client.tenant = t /\ w.req.query = defaultQuery
        /\ \E w \in wire : w.client.tenant = t /\ w.req.query = "up"

-----------------------------------------------------------------------------
(* The query client: run, runQueries and the goroutines it starts, one for *)
(* the default query and one per additional query.                         *)

querySuccess == "success"
queryFailed == "fail"
querySkipped == "skipped"
comparisonSuccess == "success"
comparisonFailed == "fail"

\* CounterVec.WithLabelValues(labels...).Inc(): the child is created at its
\* first use.
Inc(counter, labels) ==
    IF labels \in DOMAIN counter
    THEN [counter EXCEPT ![labels] = @ + 1]
    ELSE [l \in DOMAIN counter \cup {labels} |->
            IF l = labels THEN 1 ELSE counter[l]]

\* The value a scrape reports for the child; a child never created reports
\* nothing, which reads as 0 here.
CounterValue(counter, labels) ==
    IF labels \in DOMAIN counter THEN counter[labels] ELSE 0

Range(seq) == {seq[i] : i \in 1..Len(seq)}

\* NewQueryClient, "Init metrics": the children created with Add(0).
InitQueriesTotal(additionalQueries) ==
    [l \in {querySuccess, queryFailed, querySkipped}
              \X ({defaultQuery} \cup Range(additionalQueries)) |-> 0]

InitResultsComparedTotal ==
    [l \in {comparisonSuccess, comparisonFailed} \X {defaultQuery} |-> 0]

\* What QueryRange may give back to the default query: an error (transport,
\* deadline, HTTP status), a value that is no matrix, or a matrix of zero,
\* one or two
\* series; the one series has no sample, a good or a bad one, or two bad ones.
Responses(expectedSeries) ==
    {[kind |-> "error"], [kind |-> "scalar"]}
    \cup UNION {{[kind |-> "matrix", matrix |-> mx] :
                    mx \in {<< >>,
                            << << >> >>,
                            << <<good>> >>,
                            << <<bad>> >>,
                            << <<bad, bad>> >>,
                            << <<good>>, <<good>> >>}} :
                 good \in {GoodSample(expectedSeries)},
                 bad \in {BadSample(expectedSeries)}}

\* What QueryRange may give back to an additional query: an error or a
\* matrix of zero, one or two series of one sample.
UpSample == [timestamp |-> GridMilli(1), value |-> F64FromInt(1)]

AdditionalResponses ==
    {[kind |-> "error"]}
    \cup {[kind |-> "matrix", matrix |-> mx] :
            mx \in {<< >>, << <<UpSample>> >>, << <<UpSample>>, <<UpSample>> >>}}

\* The answers the default query may get, by ExpectedSeries.
DefaultResponses == [n \in 1..MaxExpectedSeries |-> Responses(n)]

\* The answers goroutine g may get.
ResponsesFor(g) ==
    IF g.id = 0 THEN DefaultResponses[qcfg.ExpectedSeries] ELSE AdditionalResponses

\* runQuery after QueryRange has returned resp: the samples and the error.
runQuery(resp) ==
    IF resp.kind = "error" THEN [samples |-> << >>, err |-> "query"]
    ELSE IF resp.kind # "matrix" THEN [samples |-> << >>, err |-> "type"]
    ELSE IF Len(resp.matrix) # 1 THEN [samples |-> << >>, err |-> "cardinality"]
    ELSE [samples |-> resp.matrix[1], err |-> "nil"]

\* runQueryAndCollectStats after runQuery has returned err, the first
\* counter it increments: queryFailed when there is an error, querySuccess
\* when there is none.
countQuery(counter, err, query) ==
    IF err # "nil"
    THEN Inc(counter, <<queryFailed, query>>)
    ELSE Inc(counter, <<querySuccess, query>>)

\* runQueryAndCollectStats after the if: querySuccess is incremented without
\* an else.
countSuccess(counter, query) == Inc(counter, <<querySuccess, query>>)

\* runDefaultQuery after runQueryAndCollectStats has returned r:
\* resultsComparedTotal.
compareStats_CountsFailedQuery(counter, r, expectedSeries, step) ==
    IF r.err # "nil" \/ verifySineWaveSamples(r.samples, expectedSeries, step) # NoError
    THEN Inc(counter, <<comparisonFailed, defaultQuery>>)
    ELSE Inc(counter, <<comparisonSuccess, defaultQuery>>)

compareStats(counter, r, expectedSeries, step) ==
    IF r.err # "nil" THEN counter
    ELSE IF verifySineWaveSamples(r.samples, expectedSeries, step) # NoError
    THEN Inc(counter, <<comparisonFailed, defaultQuery>>)
    ELSE Inc(counter, <<comparisonSuccess, defaultQuery>>)

QueryIntervals == {5}
QueryMaxAges == {3}

\* The time of NewQueryClient: two write intervals after the epoch.
QueryStartTime == 2

\* The lists of additional queries: none, one, two different ones, one twice.
AdditionalQueryLists ==
    {<< >>, <<"up">>, <<"up", "sum(up)">>, <<"up", "up">>}

QueryConfigs ==
    [QueryInterval : QueryIntervals, QueryMaxAge : QueryMaxAges,
     ExpectedSeries : {1}, ExpectedWriteInterval : {1},
     AdditionalQueries : AdditionalQueryLists]

\* The state NewQueryClient leaves, before Start, for a configuration of
\* configs: startTime = now, the counters of "Init metrics".
QueryClientNew(configs) ==
    /\ qcfg \in configs
    /\ qnow = QueryStartTime
    /\ qc = [pc |-> "call", startTime |-> QueryStartTime,
             ticker |-> [started |-> FALSE, next |-> 0, c |-> 0],
             start |-> 0, end |-> 0, ok |-> FALSE, step |-> 0,
             i |-> 0, query |-> "", wg |-> 0]
    /\ qgo = {}
    /\ queriesTotal = InitQueriesTotal(qcfg.AdditionalQueries)
    /\ resultsComparedTotal = InitResultsComparedTotal
    /\ snap = [queriesTotal |-> queriesTotal,
               resultsComparedTotal |-> resultsComparedTotal]

QueryInit ==
    /\ WriteClientIdle
    /\ TenantsIdle
    /\ MainIdle
    /\ HistoryIdle
    /\ input = [fn |-> "none"]
    /\ output = [fn |-> "none"]
    /\ QueryClientNew(QueryConfigs)

\* Where run() continues when runQueries returns.
AfterRunQueries == IF qc.ticker.started THEN "recv" ELSE "newticker"

\* The window of a runQueries call entered now.
QueryWindow ==
    getQueryTimeRange(qnow, qc.startTime, qcfg.ExpectedWriteInterval,
                      qcfg.QueryMaxAge)

CountersNow ==
    [queriesTotal |-> queriesTotal, resultsComparedTotal |-> resultsComparedTotal]

\* runQueries when the window is not eligible: count the skipped tick, return.
RunQueriesSkip ==
    /\ qc.pc = "call"
    /\ ~QueryWindow.ok
    /\ snap' = CountersNow
    /\ queriesTotal' = Inc(queriesTotal, <<querySkipped, "">>)
    /\ qc' = [qc EXCEPT !.pc = AfterRunQueries, !.ok = FALSE,
                        !.start = QueryWindow.start, !.end = QueryWindow.end]
    /\ qgo' = {}
    /\ UNCHANGED <<writeVars, input, output, tenantVars, mainVars, qcfg, qnow,
                   resultsComparedTotal>>

\* runQueries when the window is eligible: the step, wg.Add, and the
\* goroutine of the default query.
RunQueriesStart ==
    /\ qc.pc = "call"
    /\ QueryWindow.ok
    /\ snap' = CountersNow
    /\ qc' = [qc EXCEPT !.pc = "loop", !.ok = TRUE,
                        !.start = QueryWindow.start, !.end = QueryWindow.end,
                        !.step = getQueryStep(QueryWindow.start, QueryWindow.end,
                                              qcfg.ExpectedWriteInterval),
                        !.i = 0, !.query = "",
                        !.wg = 1 + Len(qcfg.AdditionalQueries)]
    /\ qgo' = {[id |-> 0, st |-> "spawned", query |-> "", start |-> 0, end |-> 0,
                step |-> 0, resp |-> [kind |-> "none"]]}
    /\ UNCHANGED <<writeVars, input, output, tenantVars, mainVars, qcfg, qnow,
                   queriesTotal, resultsComparedTotal>>

\* One iteration of "for _, query := range c.cfg.AdditionalQueries": the one
\* loop variable query takes the next value and a goroutine is started whose
\* closure refers to that variable.
SpawnAdditional ==
    /\ qc.pc = "loop"
    /\ qc.i < Len(qcfg.AdditionalQueries)
    /\ qc' = [qc EXCEPT !.i = @ + 1, !.query = qcfg.AdditionalQueries[qc.i + 1]]
    /\ qgo' = qgo \cup {[id |-> qc.i + 1, st |-> "spawned", query |-> "",
                         start |-> 0, end |-> 0, step |-> 0,
                         resp |-> [kind |-> "none"]]}
    /\ UNCHANGED <<writeVars, input, output, tenantVars, mainVars, qcfg, qnow,
                   queriesTotal, resultsComparedTotal, snap>>

QueryLoopExit ==
    /\ qc.pc = "loop"
    /\ qc.i = Len(qcfg.AdditionalQueries)
    /\ qc' = [qc EXCEPT !.pc = "wait"]
    /\ UNCHANGED <<writeVars, input, output, tenantVars, mainVars, qcfg, qnow, qgo,
                   queriesTotal, resultsComparedTotal, snap>>

\* wg.Wait() returns and runQueries with it.
RunQueriesReturn ==
    /\ qc.pc = "wait"
    /\ qc.wg = 0
    /\ qc' = [qc EXCEPT !.pc = AfterRunQueries]
    /\ UNCHANGED <<writeVars, input, output, tenantVars, mainVars, qcfg, qnow, qgo,
                   queriesTotal, resultsComparedTotal, snap>>

\* time.NewTicker(c.cfg.QueryInterval).
QueryNewTicker ==
    /\ qc.pc = "newticker"
    /\ qc' = [qc EXCEPT !.pc = "recv",
                        !.ticker = [started |-> TRUE,
                                    next |-> qnow + qcfg.QueryInterval, c |-> 0]]
    /\ UNCHANGED <<writeVars, input, output, tenantVars, mainVars, qcfg, qnow, qgo,
                   queriesTotal, resultsComparedTotal, snap>>

\* case <-ticker.C.
QueryRecvTick ==
    /\ qc.pc = "recv"
    /\ qc.ticker.c > 0
    /\ qc' = [qc EXCEPT !.pc = "call", !.ticker.c = 0]
    /\ UNCHANGED <<writeVars, input, output, tenantVars, mainVars, qcfg, qnow, qgo,
                   queriesTotal, resultsComparedTotal, snap>>

\* A query goroutine evaluates the arguments of its call and hands the query
\* to QueryRange.  The default query is a constant; an additional query is
\* read from the loop variable, which the loop may have overwritten since
\* the goroutine was started.
IssueQuery(g) ==
    /\ g.st = "spawned"
    /\ qgo' = (qgo \ {g}) \cup
                {[g EXCEPT !.st = "issued",
                           !.query = IF g.id = 0 THEN defaultQuery ELSE qc.query,
                           !.start = qc.start, !.end = qc.end, !.step = qc.step]}
    /\ UNCHANGED <<writeVars, input, output, tenantVars, mainVars, qcfg, qnow, qc,
                   queriesTotal, resultsComparedTotal, snap>>

\* The counters are CounterVecs other goroutines read and write between any
\* two increments of one goroutine, so every increment is a step of its own.
\* QueryRange returns resp; runQuery returns and runQueryAndCollectStats
\* increments its first counter.
QueryReturn(g, resp) ==
    /\ g.st = "issued"
    /\ queriesTotal' = countQuery(queriesTotal, runQuery(resp).err, g.query)
    /\ qgo' = (qgo \ {g}) \cup
                {[g EXCEPT !.st = IF runQuery(resp).err # "nil" THEN "failed"
                                  ELSE "counted",
                           !.resp = resp]}
    /\ UNCHANGED <<writeVars, input, output, tenantVars, mainVars, qcfg, qnow, qc,
                   resultsComparedTotal, snap>>

\* runQueryAndCollectStats after it has counted a failed query.
CountSuccess(g) ==
    /\ g.st = "failed"
    /\ queriesTotal' = countSuccess(queriesTotal, g.query)
    /\ qgo' = (qgo \ {g}) \cup {[g EXCEPT !.st = "counted"]}
    /\ UNCHANGED <<writeVars, input, output, tenantVars, mainVars, qcfg, qnow, qc,
                   resultsComparedTotal, snap>>

\* runDefaultQuery after runQueryAndCollectStats has returned.
CompareResult(g) ==
    /\ g.st = "counted"
    /\ g.id = 0
    /\ resultsComparedTotal' =
           compareStats(resultsComparedTotal, runQuery(g.resp), qcfg.ExpectedSeries,
                        g.step)
    /\ qgo' = (qgo \ {g}) \cup {[g EXCEPT !.st = "compared"]}
    /\ UNCHANGED <<writeVars, input, output, tenantVars, mainVars, qcfg, qnow, qc,
                   queriesTotal, snap>>

\* defer wg.Done(): the goroutine ends.
QueryDone(g) ==
    /\ \/ g.st = "compared"
       \/ g.st = "counted" /\ g.id # 0
    /\ qgo' = (qgo \ {g}) \cup {[g EXCEPT !.st = "done"]}
    /\ qc' = [qc EXCEPT !.wg = @ - 1]
    /\ UNCHANGED <<writeVars, input, output, tenantVars, mainVars, qcfg, qnow,
                   queriesTotal, resultsComparedTotal, snap>>

\* The clock advances by one unit; the ticker as in the write client.
QueryAdvance ==
    /\ qnow < MaxQueryTime
    /\ qnow' = qnow + 1
    /\ qc' = IF qc.ticker.started /\ qnow' = qc.ticker.next
             THEN [qc EXCEPT !.ticker.c = 1,
                             !.ticker.next = @ + qcfg.QueryInterval]
             ELSE qc
    /\ UNCHANGED <<writeVars, input, output, tenantVars, mainVars, qcfg, qgo,
                   queriesTotal, resultsComparedTotal, snap>>

QueryNext ==
    /\ \/ RunQueriesSkip
       \/ RunQueriesStart
       \/ SpawnAdditional
       \/ QueryLoopExit
       \/ RunQueriesReturn
       \/ QueryNewTicker
       \/ QueryRecvTick
       \/ \E g \in qgo : IssueQuery(g)
       \/ \E g \in qgo : \E resp \in ResponsesFor(g) : QueryReturn(g, resp)
       \/ \E g \in qgo : CountSuccess(g)
       \/ \E g \in qgo : CompareResult(g)
       \/ \E g \in qgo : QueryDone(g)
       \/ QueryAdvance
    /\ UNCHANGED hist

SpecQuery == QueryInit /\ [][QueryNext]_vars

\* The wait group counts the query goroutines still to finish or to start;
\* the ticker's channel holds at most one tick.
QueryTypeOK ==
    /\ qc.wg = Cardinality({g \in qgo : g.st # "done"})
                 + (IF qc.pc = "loop" THEN Len(qcfg.AdditionalQueries) - qc.i ELSE 0)
    /\ qc.ticker.c \in {0, 1}

-----------------------------------------------------------------------------
(* Claims about the query client's ticks and counters.                     *)

\* The last runQueries call has returned and had found no eligible window.
AfterSkippedTick == qc.pc \in {"newticker", "recv"} /\ ~qc.ok

\* The last runQueries call has returned and had run its queries.
AfterEligibleTick == qc.pc \in {"newticker", "recv"} /\ qc.ok

\* The queries the client is configured to run.
ConfiguredQueries == {defaultQuery} \cup Range(qcfg.AdditionalQueries)

\* By how much a child of queries_total has grown since runQueries was entered.
Delta(result, query) ==
    CounterValue(queriesTotal, <<result, query>>)
        - CounterValue(snap.queriesTotal, <<result, query>>)

\* C14 as stated: on a tick whose window is not eligible no query is issued
\* and the only counter that changes is queries_total{result="skipped",
\* query=<default query>}, which grows by exactly 1; no counter of an
\* additional query and no results-compared counter changes.
C14_SkipCountsDefaultQuery ==
    AfterSkippedTick =>
        /\ qgo = {}
        /\ queriesTotal = Inc(snap.queriesTotal, <<querySkipped, defaultQuery>>)
        /\ resultsComparedTotal = snap.resultsComparedTotal

\* What the code does (C14): the skipped tick is counted under the query
\* label "", a child "Init metrics" never created; the children of the
\* default query and of the additional queries stay as they were.
SkipCountsEmptyQueryLabel ==
    AfterSkippedTick =>
        /\ qgo = {}
        /\ queriesTotal = Inc(snap.queriesTotal, <<querySkipped, "">>)
        /\ Delta(querySkipped, defaultQuery) = 0
        /\ resultsComparedTotal = snap.resultsComparedTotal

\* The goroutines of the current call whose query q has returned and whose
\* runQueryAndCollectStats has incremented its first counter; those among
\* them whose runQuery returned an error; those that have left
\* runQueryAndCollectStats.
Returned(q) ==
    {g \in qgo : g.st \in {"failed", "counted", "compared", "done"} /\ g.query = q}

Failed(q) == {g \in Returned(q) : runQuery(g.resp).err # "nil"}

Executed(q) == {g \in Returned(q) : g.st # "failed"}

\* C15 as stated: each query executed on an eligible tick increments exactly
\* one of queries_total{success, q} and queries_total{fail, q}, by 1: success
\* when it returned without error, fail when it returned an error; a failed
\* query never increments the success counter.
C15_ExactlyOneOutcomeCounter ==
    \A q \in ConfiguredQueries :
        /\ Delta(queryFailed, q) = Cardinality(Failed(q))
        /\ Delta(querySuccess, q) = Cardinality(Executed(q) \ Failed(q))

\* What the code does (C15): every executed query increments the success
\* counter, the failed ones the fail counter as well.
EveryQueryCountsSuccess ==
    \A q \in ConfiguredQueries :
        /\ Delta(queryFailed, q) = Cardinality(Failed(q))
        /\ Delta(querySuccess, q) = Cardinality(Executed(q))

\* How often q stands in the list of additional queries.
Configured(q) ==
    Cardinality({i \in 1..Len(qcfg.AdditionalQueries) : qcfg.AdditionalQueries[i] = q})

\* C16 as stated: on every eligible tick the default query and each additional
\* query is issued exactly once, all with the same start, end and step: the
\* multiset of issued query strings is {default, q1, ..., qn}, whatever the
\* interleaving of the query goroutines with the loop that starts them.
C16_EachQueryIssuedOnce ==
    AfterEligibleTick =>
        /\ \A q \in ConfiguredQueries \cup {g.query : g \in qgo} :
              Cardinality({g \in qgo : g.query = q}) =
                  (IF q = defaultQuery THEN 1 ELSE 0) + Configured(q)
        /\ \A g \in qgo :
              g.start = qc.start /\ g.end = qc.end /\ g.step = qc.step

\* What the code does (C16): as many queries are issued as are configured,
\* all over the same window; the default query once; the goroutine of the
\* i-th additional query issues the i-th or a later one of the list.
IssuedQueryIsOwnOrLater ==
    AfterEligibleTick =>
        /\ Cardinality(qgo) = 1 + Len(qcfg.AdditionalQueries)
        /\ \A g \in qgo :
              /\ g.start = qc.start /\ g.end = qc.end /\ g.step = qc.step
              /\ g.id = 0 => g.query = defaultQuery
              /\ g.id # 0 => \E j \in g.id..Len(qcfg.AdditionalQueries) :
                                g.query = qcfg.AdditionalQueries[j]

\* C17 as stated: the expectation of exactly one series holds for the default
\* query only: an additional query answered by a matrix of zero or of more
\* than one series is counted as successful and not as failed.
C17_CardinalityOnlyForDefault ==
    \A g \in qgo :
        (/\ Len(qcfg.AdditionalQueries) = 1
         /\ g.id # 0
         /\ g.st = "done"
         /\ g.resp.kind = "matrix"
         /\ Len(g.resp.matrix) # 1)
        => /\ Delta(querySuccess, g.query) = 1
           /\ Delta(queryFailed, g.query) = 0

\* What the code does (C17): runQuery checks the number of series for every
\* query, so such an additional query is counted as failed.
CardinalityForEveryQuery ==
    \A g \in qgo :
        (/\ Len(qcfg.AdditionalQueries) = 1
         /\ g.id # 0
         /\ g.st = "done"
         /\ g.resp.kind = "matrix"
         /\ Len(g.resp.matrix) # 1)
        => Delta(queryFailed, g.query) = 1

-----------------------------------------------------------------------------
(* Claims about errors in the write path.                                  *)

\* C18: each batch of a write tick is handed to send at most once, whatever
\* the outcome of its HTTP call; it is sent neither again within its tick nor
\* in a later tick, and the requests of a tick carry only series generated
\* for the timestamp of that tick.
C18_NoBatchResent ==
    /\ \A b \in batches :
          /\ b.sends <= 1
          /\ b.st \in {"sending", "returned", "released", "done"} => b.sends = 1
    /\ \A b1, b2 \in batches : (b1.tick = b2.tick /\ b1.o = b2.o) => b1 = b2
    /\ \A r \in sent :
          /\ r.tick = tick
          /\ \A i \in 1..Len(r.req) :
                /\ r.req[i].timestamp = UnixMilli(ts)
                /\ r.req[i].value = SineWaveValueAt(ts)

\* C18 witness: in the second tick, at a later timestamp than the first, a
\* batch whose send failed has finished while another batch is being sent.
C18_Witness ==
    /\ tick >= 2
    /\ ts > 0
    /\ \E b \in batches : b.tick = tick /\ b.st = "done" /\ b.err /\ b.sends = 1
    /\ \E b \in batches : b.tick = tick /\ b.st = "sending"

\* C19: send returns no error exactly when the HTTP call completed with a
\* status code in 200..299; every other status code (1xx, 3xx, 4xx, 5xx) and
\* every call that did not complete gives an error, and a 5xx response gives
\* the same kind of error as any other status outside 2xx.
C19_SendErrorIffNot2xx ==
    output.fn = "send" =>
        /\ (output.err = NoError)
               <=> (input.completed /\ 200 <= input.status /\ input.status <= 299)
        /\ (input.completed /\ ~(200 <= input.status /\ input.status <= 299))
               => output.err = [kind |-> "status", status |-> input.status]
        /\ ~input.completed => output.err = [kind |-> "transport"]
        /\ (output.err # NoError)
               = sendErr(IF input.completed THEN input.status ELSE 0)

\* C19 witness: a 5xx response has given a status error.
C19_Witness ==
    /\ output.fn = "send"
    /\ input.completed
    /\ input.status \div 100 = 5
    /\ output.err = [kind |-> "status", status |-> input.status]

-----------------------------------------------------------------------------
(* Progress of the two clients.  One of the clients runs, in a small       *)
(* configuration; its goroutines are scheduled and its network calls       *)
(* return.  No fairness is asked of the clock.                             *)

LiveWriteConfigs ==
    {[SeriesCount |-> n, WriteBatchSize |-> 1, WriteConcurrency |-> 1,
      WriteInterval |-> 2] : n \in {0, 2}}

LiveQueryConfigs ==
    [QueryInterval : {2}, QueryMaxAge : QueryMaxAges, ExpectedSeries : {1},
     ExpectedWriteInterval : {1}, AdditionalQueries : {<<"up">>}]

LiveInit ==
    \/ Init /\ cfg \in LiveWriteConfigs
    \/ /\ WriteClientIdle
       /\ TenantsIdle
       /\ MainIdle
       /\ HistoryIdle
       /\ input = [fn |-> "none"]
       /\ output = [fn |-> "none"]
       /\ QueryClientNew(LiveQueryConfigs)

\* The steps of the write client's goroutines, network returns included.
WriteSteps ==
    /\ pc # "idle"
    /\ \/ WriteSeriesEnter
       \/ SpawnBatch
       \/ LoopExit
       \/ WaitReturn
       \/ NewTicker
       \/ RecvTick
       \/ \E b \in batches : GateStart(b)
       \/ \E b \in batches : \E status \in StatusCodes : SendReturn(b, status)
       \/ \E b \in batches : GateDone(b)
       \/ \E b \in batches : WgDone(b)
    /\ UNCHANGED hist

\* The steps of the query client's goroutines, network returns included.
QuerySteps ==
    /\ qc.pc # "idle"
    /\ \/ RunQueriesSkip
       \/ RunQueriesStart
       \/ SpawnAdditional
       \/ QueryLoopExit
       \/ RunQueriesReturn
       \/ QueryNewTicker
       \/ QueryRecvTick
       \/ \E g \in qgo : IssueQuery(g)
       \/ \E g \in qgo : \E resp \in ResponsesFor(g) : QueryReturn(g, resp)
       \/ \E g \in qgo : CountSuccess(g)
       \/ \E g \in qgo : CompareResult(g)
       \/ \E g \in qgo : QueryDone(g)
    /\ UNCHANGED hist

LiveNext ==
    \/ WriteSteps
    \/ pc # "idle" /\ Advance /\ UNCHANGED hist
    \/ QuerySteps
    \/ qc.pc # "idle" /\ QueryAdvance /\ UNCHANGED hist

SpecLive ==
    /\ LiveInit
    /\ [][LiveNext]_vars
    /\ WF_vars(WriteSteps)
    /\ WF_vars(QuerySteps)

\* The loop of run() waits for the ticker and no tick is waiting for it (or
\* the client does not run).
WriteLoopWaiting == pc = "idle" \/ (pc = "recv" /\ ticker.c = 0)

QueryLoopWaiting == qc.pc = "idle" \/ (qc.pc = "recv" /\ qc.ticker.c = 0)

\* C20: no error ends the loop of a client.  Again and again the loop is back
\* at the ticker with every delivered tick received: a tick the timer has
\* delivered is received and its handler called, and a handler that has been
\* called returns to the loop, whatever the outcome of its batches or queries
\* (failed sends; query errors, unexpected shape or cardinality, failed
\* verification).
C20_NoErrorEndsTheLoop ==
    /\ []<>WriteLoopWaiting
    /\ []<>QueryLoopWaiting

\* C20 witness: the query client's loop has received a tick and calls
\* runQueries, after a call in which the default query failed verification
\* and the additional query returned an error.
C20_Witness ==
    /\ qc.pc = "call"
    /\ \E g \in qgo : /\ g.id = 0 /\ g.st = "done"
                      /\ runQuery(g.resp).err = "nil"
                      /\ verifySineWaveSamples(runQuery(g.resp).samples,
                                               qcfg.ExpectedSeries, g.step) # NoError
    /\ \E g \in qgo : g.id # 0 /\ g.st = "done" /\ runQuery(g.resp).err # "nil"

\* The write client's loop has received a tick and calls writeSeries, after
\* a tick in which a batch failed.
WriteLoopGoesOnAfterFailure ==
    /\ pc = "call"
    /\ \E b \in batches : b.st = "done" /\ b.err

-----------------------------------------------------------------------------
(* Claims about the write gate and the ticker.                             *)

\* C22: every batch that has acquired a permit of the write gate releases it
\* exactly once, whether its send succeeds or fails: the permits held are
\* those of the batches between gate.Start and gate.Done, and whenever a
\* tick handler has returned no permit is held, so the next tick starts with
\* all WriteConcurrency permits free.
C22_PermitsReleased ==
    /\ gateLen = Cardinality(HoldingPermit)
    /\ (pc \in {"call", "recv", "newticker"}) => gateLen = 0
    /\ (pc = "loop" /\ o = 0) => gateLen = 0

\* C22 witness: a handler has returned after a tick in which one batch
\* failed and another succeeded, and the gate is empty.
C22_Witness ==
    /\ pc = "recv"
    /\ gateLen = 0
    /\ \E b \in batches : b.tick = tick /\ b.st = "done" /\ b.err
    /\ \E b \in batches : b.tick = tick /\ b.st = "done" /\ ~b.err

-----------------------------------------------------------------------------
(* Claims about the results-compared counters.                             *)

\* By how much a child of results_compared_total has grown since runQueries
\* was entered.
ComparedDelta(result, query) ==
    CounterValue(resultsComparedTotal, <<result, query>>)
        - CounterValue(snap.resultsComparedTotal, <<result, query>>)

\* The goroutines of the current call whose default query has returned
\* without error, and those among them whose samples pass the verification.
DefaultReturned ==
    {g \in qgo : /\ g.id = 0 /\ g.st \in {"compared", "done"}
                 /\ runQuery(g.resp).err = "nil"}

DefaultVerified ==
    {g \in DefaultReturned :
        verifySineWaveSamples(runQuery(g.resp).samples, qcfg.ExpectedSeries,
                              g.step) = NoError}

\* C30: on an eligible tick a results-compared counter of the default query
\* grows by exactly 1 if and only if the default query returned without
\* error: the success counter when the verification passes, the fail counter
\* when it does not, never both, and none when the default query failed; no
\* results-compared counter of an additional query ever changes.
C30_ComparedOnceIffReturned ==
    /\ ComparedDelta(comparisonSuccess, defaultQuery) = Cardinality(DefaultVerified)
    /\ ComparedDelta(comparisonFailed, defaultQuery)
           = Cardinality(DefaultReturned \ DefaultVerified)
    /\ Cardinality(DefaultReturned) <= 1
    /\ \A k \in DOMAIN resultsComparedTotal :
           k[2] # defaultQuery => resultsComparedTotal[k] = 0
    /\ \A k \in DOMAIN resultsComparedTotal : k[2] = defaultQuery

\* C30 witness: an eligible tick is over on which the default query returned
\* samples that fail the verification and an additional query returned
\* without error.
C30_Witness ==
    /\ AfterEligibleTick
    /\ DefaultReturned # {}
    /\ DefaultVerified = {}
    /\ \E g \in qgo : g.id # 0 /\ g.st = "done" /\ runQuery(g.resp).err = "nil"

\* An eligible tick is over on which the default query passed the
\* verification, and one on which it failed.
DefaultQueryVerifiedTick == AfterEligibleTick /\ DefaultVerified # {}

DefaultQueryFailedTick ==
    AfterEligibleTick /\ \E g \in qgo : g.id = 0 /\ g.st = "done"
                                        /\ runQuery(g.resp).err # "nil"

-----------------------------------------------------------------------------
(* Claims about churn periods that are not whole seconds.                  *)

\* C26 as stated: for every positive churn period, the periods that are not
\* a whole number of seconds included, and every series, the churn id does
\* not decrease in time and has grown by exactly 1 when the timestamp has
\* advanced by one churn period.
C26_ChurnIDStepsOncePerPeriod ==
    output.fn = "churnStep" =>
        /\ ~output.panic
        /\ \A i \in 1..input.seriesCount : output.after[i] = output.before[i] + 1

\* What the code does (C26): the divisor is the period cut down to whole
\* seconds, so a period below one second panics and over any other period
\* the id grows by the period divided by its whole seconds, rounded up or
\* down: by 1 for whole seconds, by 1 or 2 for a second and a half.
ChurnPeriodCutToSeconds ==
    output.fn = "churnStep" =>
        LET secs == input.churnPeriod \div UnitsPerSecond
        IN  /\ output.panic <=> secs = 0
            /\ ~output.panic =>
                 \A i \in 1..input.seriesCount :
                    /\ output.after[i] >= output.before[i] + 1
                    /\ (output.after[i] - output.before[i]) * secs * UnitsPerSecond
                          < input.churnPeriod + secs * UnitsPerSecond
            /\ (~output.panic /\ input.churnPeriod % UnitsPerSecond = 0) =>
                 \A i \in 1..input.seriesCount :
                    output.after[i] = output.before[i] + 1

-----------------------------------------------------------------------------
(* Claims about the timestamp a sample carries.                            *)

\* C29 as stated: for every write interval and every write-tick timestamp t,
\* the time the verifier rebuilds from the millisecond timestamp of the
\* sample is t, so the value it expects (the wave at that time, times
\* ExpectedSeries = SeriesCount) is the sum of the SeriesCount values written
\* for t, and the verification passes.
C29_TimestampRoundTrip ==
    output.fn = "roundtrip" =>
        /\ output.rebuilt = output.t
        /\ output.expected = output.sample.value
        /\ output.err = NoError

\* What the code does (C29): the sample carries t cut down to whole
\* milliseconds, and the verifier evaluates the wave there; the rebuilt time
\* is t exactly when t is a whole number of milliseconds, as it is for every
\* write interval of whole milliseconds, and then the expected value is the
\* written sum and the verification passes.
TimestampCutToMillis ==
    output.fn = "roundtrip" =>
        /\ output.rebuilt = output.t - (output.t % UnitsPerMilli)
        /\ output.expected = F64Mul(SineWaveValueAt(output.rebuilt),
                                    F64FromInt(input.seriesCount))
        /\ input.interval % UnitsPerMilli = 0 =>
              /\ output.rebuilt = output.t
              /\ output.expected = output.sample.value
              /\ output.err = NoError

\* The write tick at half a millisecond with one series: the sample carries
\* the wave's value there and the timestamp 0, the verifier expects the
\* wave's value at 0 and reports a value error.
SubMilliTickFailsVerification ==
    /\ output.fn = "roundtrip"
    /\ output.t % UnitsPerMilli # 0
    /\ input.seriesCount = 1
    /\ output.rebuilt < output.t
    /\ output.expected # output.sample.value
    /\ output.err.kind = "value"

-----------------------------------------------------------------------------
(* Claims about the timing of the write client.                            *)

\* C21: timer firings during a writeSeries call are not queued.  The channel
\* of the ticker never holds more than one tick; when a call during which
\* the ticker fired returns, exactly one tick is pending, however often it
\* fired; and the receive that starts the next call empties the channel, so
\* one call follows at once and not one per firing.
C21_AtMostOnePendingTick ==
    /\ [](ticker.c <= 1)
    /\ []((pc = "recv" /\ hist.fired >= 1) => ticker.c = 1)
    /\ [][(pc = "recv" /\ pc' = "call") => ticker'.c = 0]_vars

\* C21 witness: a call during which the ticker fired at least twice has
\* returned and one tick is pending.
C21_Witness ==
    /\ pc = "recv"
    /\ hist.fired >= 2
    /\ ticker.c = 1

\* How long batch b of the current call has waited, or did wait, for the gate.
GateWait(b) == hist.wait[b.o]

\* C23 as stated: the wait of a batch for the write gate is bounded by the
\* deadline of the request, WriteInterval: no batch is still waiting, and none
\* has been sent, after waiting longer than that.
C23_GateWaitBoundedByDeadline ==
    \A b \in batches : b.tick = tick => GateWait(b) <= cfg.WriteInterval

\* The time the query client of the tenant was constructed: with the write
\* client, at the origin of the clock.
TimedQueryStart == 0

\* The window of a query issued now by the query client of the tenant.
QueryWindowNow ==
    getQueryTimeRange(now, TimedQueryStart, cfg.WriteInterval, HugeAge)

\* Every batch of the current writeSeries call has been started and has
\* completed its network call.
CallsCompleted ==
    /\ pc \in {"wait", "recv", "newticker"}
    /\ \A b \in batches : b.st \in {"returned", "released", "done"}

\* C27 as stated: whenever a query with window end E is issued, every batch of
\* every write tick whose aligned timestamp is at most E has completed its
\* network call, for every SeriesCount, WriteBatchSize and WriteConcurrency.
C27_MarginCoversInFlightWrites ==
    (QueryWindowNow.ok /\ tick >= 1 /\ ts <= QueryWindowNow.end) => CallsCompleted

\* No step of the client has been kept waiting: whenever the clock advanced,
\* run() was waiting for a tick or for its batches, and every batch for the
\* gate or for the answer to its request.
Prompt == ~hist.late

\* What the code does (C27): when no step of the client is kept waiting, the
\* margin is enough for the ticks whose batches do not have to wait for the
\* gate, that is the ticks of at most WriteConcurrency batches.
MarginCoversSingleRound ==
    (Prompt /\ cfg.SeriesCount <= cfg.WriteBatchSize * cfg.WriteConcurrency) =>
        ((QueryWindowNow.ok /\ tick >= 1 /\ ts <= QueryWindowNow.end)
            => CallsCompleted)

\* A tick of more batches than the gate admits misses the margin though no
\* step of the client has been kept waiting.
PromptWriteInFlightInsideWindow ==
    /\ Prompt
    /\ QueryWindowNow.ok
    /\ tick >= 1
    /\ ts <= QueryWindowNow.end
    /\ \E b \in batches : b.st = "spawned"

\* A batch has waited for the gate longer than WriteInterval and then sent its
\* request, though no step of the client has been kept waiting.
PromptBatchSentAfterDeadline ==
    /\ Prompt
    /\ \E b \in batches : /\ b.tick = tick
                           /\ b.st = "sending"
                           /\ GateWait(b) > cfg.WriteInterval

\* C28 as stated: successive writeSeries calls of a client use aligned
\* timestamps exactly one WriteInterval apart, so that no aligned timestamp
\* is written twice and none is skipped.
C28_TimestampsOneIntervalApart ==
    tick >= 2 => ts = hist.prevTs + cfg.WriteInterval

\* What the code does (C28): the aligned timestamps of successive calls never
\* decrease; they may repeat and they may skip intervals.
TimestampsNeverDecrease == tick >= 2 => ts >= hist.prevTs

\* Two successive calls with the same aligned timestamp; a call that skips
\* an aligned timestamp.
TimestampWrittenTwice == tick >= 2 /\ ts = hist.prevTs

TimestampSkipped == tick >= 2 /\ ts > hist.prevTs + cfg.WriteInterval

\* An aligned timestamp is skipped though no step of the client has been kept
\* waiting.
PromptTimestampSkipped == Prompt /\ TimestampSkipped

-----------------------------------------------------------------------------
(* main: the loop that constructs the clients of every tenant, and the     *)
(* run() goroutines of the clients it starts.  A client is "Idle" when it  *)
(* has been constructed, "Running" when Start has been called on it and    *)
(* "Ticking" when its run() goroutine has made its first call of           *)
(* writeSeries or runQueries.                                              *)

WriteClientOf(t) == [tenant |-> t, kind |-> "write"]

QueryClientOf(t) == [tenant |-> t, kind |-> "query"]

\* The flags tenants-count and query-enabled; the loop is about to construct
\* the write client of tenant 1.
MainInit ==
    /\ WriteClientIdle
    /\ TenantsIdle
    /\ QueryClientIdle
    /\ HistoryIdle
    /\ input = [fn |-> "none"]
    /\ output = [fn |-> "none"]
    /\ otherGate = 0
    /\ clientState = << >>
    /\ orch \in [pc : {"write"}, t : {1}, tenantsCount : 1..MaxMainTenants,
                 queryEnabled : {"true", "false"}]

\* writeClients = append(writeClients, client.NewWriteClient(...)).
MainNewWriteClient ==
    /\ orch.pc = "write"
    /\ clientState' = (WriteClientOf(orch.t) :> "Idle") @@ clientState
    /\ orch' = [orch EXCEPT !.pc = "query"]
    /\ UNCHANGED <<writeVars, input, output, tenantVars, queryVars, otherGate, hist>>

\* if *queryEnabled == "true" fails.
MainQueryDisabled ==
    /\ orch.pc = "query"
    /\ orch.queryEnabled # "true"
    /\ orch' = [orch EXCEPT !.pc = "next"]
    /\ UNCHANGED <<writeVars, input, output, tenantVars, queryVars, clientState,
                   otherGate, hist>>

\* queryClient := client.NewQueryClient(...).
MainNewQueryClient ==
    /\ orch.pc = "query"
    /\ orch.queryEnabled = "true"
    /\ clientState' = (QueryClientOf(orch.t) :> "Idle") @@ clientState
    /\ orch' = [orch EXCEPT !.pc = "start"]
    /\ UNCHANGED <<writeVars, input, output, tenantVars, queryVars, otherGate, hist>>

\* queryClient.Start(): go c.run().
MainStartQueryClient ==
    /\ orch.pc = "start"
    /\ clientState' = [clientState EXCEPT ![QueryClientOf(orch.t)] = "Running"]
    /\ orch' = [orch EXCEPT !.pc = "next"]
    /\ UNCHANGED <<writeVars, input, output, tenantVars, queryVars, otherGate, hist>>

\* t++ and the loop condition; after the loop, wg.Wait(), which never returns.
MainNextTenant ==
    /\ orch.pc = "next"
    /\ orch' = [orch EXCEPT !.t = @ + 1,
                            !.pc = IF orch.t + 1 <= orch.tenantsCount
                                   THEN "write" ELSE "wait"]
    /\ UNCHANGED <<writeVars, input, output, tenantVars, queryVars, clientState,
                   otherGate, hist>>

\* The run() goroutine of a started client makes its first call.
ClientFirstTick(c) ==
    /\ clientState[c] = "Running"
    /\ clientState' = [clientState EXCEPT ![c] = "Ticking"]
    /\ UNCHANGED <<writeVars, input, output, tenantVars, queryVars, orch,
                   otherGate, hist>>

MainNext ==
    \/ MainNewWriteClient
    \/ MainQueryDisabled
    \/ MainNewQueryClient
    \/ MainStartQueryClient
    \/ MainNextTenant
    \/ \E c \in DOMAIN clientState : ClientFirstTick(c)

SpecMain == MainInit /\ [][MainNext]_vars

\* The tenants whose loop iteration is over.
TenantsDone ==
    {t \in 1..orch.tenantsCount : t < orch.t}

\* C24 as stated: for every tenant main constructs one write client and moves
\* it from Idle to Running, so that it performs its first write tick; the
\* query client of the tenant is constructed and started only if querying
\* is enabled.
C24_EveryWriteClientStarted ==
    \A t \in TenantsDone :
        /\ WriteClientOf(t) \in DOMAIN clientState
        /\ clientState[WriteClientOf(t)] \in {"Running", "Ticking"}
        /\ QueryClientOf(t) \in DOMAIN clientState <=> orch.queryEnabled = "true"
        /\ QueryClientOf(t) \in DOMAIN clientState =>
              clientState[QueryClientOf(t)] \in {"Running", "Ticking"}

\* What the code does (C24): main constructs the write client of every
\* tenant and never calls Start on it, so it stays Idle and makes no write
\* tick; the query client is constructed and started only if querying is
\* enabled.
WriteClientsStayIdle ==
    /\ \A c \in DOMAIN clientState : c.kind = "write" => clientState[c] = "Idle"
    /\ \A t \in TenantsDone :
          /\ WriteClientOf(t) \in DOMAIN clientState
          /\ QueryClientOf(t) \in DOMAIN clientState <=> orch.queryEnabled = "true"
          /\ QueryClientOf(t) \in DOMAIN clientState =>
                clientState[QueryClientOf(t)] \in {"Running", "Ticking"}

-----------------------------------------------------------------------------
(* Two tenants.  The write client of the model is that of tenant B; of the *)
(* write client of tenant A the model keeps the gate, which NewWriteClient *)
(* makes for each client with gate.New(cfg.WriteConcurrency), and lets its *)
(* batches acquire permits for calls that never return.  main gives every  *)
(* tenant the same configuration.                                          *)

PairConfigs ==
    {[SeriesCount |-> 2, WriteBatchSize |-> 1, WriteConcurrency |-> c,
      WriteInterval |-> 2] : c \in {1, 2}}

PairInit == Init /\ cfg \in PairConfigs

\* A batch of tenant A acquires a permit of A's gate; its call does not return.
OtherGateStart ==
    /\ otherGate < cfg.WriteConcurrency
    /\ otherGate' = otherGate + 1
    /\ UNCHANGED <<writeVars, input, output, tenantVars, queryVars, orch,
                   clientState, hist>>

PairNext ==
    \/ WriteSteps
    \/ Advance /\ UNCHANGED hist
    \/ OtherGateStart

\* The steps of B's goroutines are taken when they can be.
SpecPair == PairInit /\ [][PairNext]_vars /\ WF_vars(WriteSteps)

\* All permits of tenant A's gate are held.
OtherGateFull == otherGate = cfg.WriteConcurrency

\* C25: tenants do not interfere.  While all permits of tenant A's gate are
\* held by calls that never return, the batches of tenant B still acquire
\* permits of B's own gate and finish, and B's loop comes back to wait for
\* its next tick again and again.
C25_TenantsDoNotInterfere ==
    /\ (OtherGateFull /\ wg > 0) ~> (wg = 0)
    /\ []<>WriteLoopWaiting

\* C25 witness: with all of A's permits held, B has finished a batch of its
\* second tick.
C25_Witness ==
    /\ OtherGateFull
    /\ tick >= 2
    /\ \E b \in batches : b.tick = tick /\ b.st = "done"

-----------------------------------------------------------------------------
(* Claims about what RoundTrip does to the request of its caller.          *)

\* C32: RoundTrip leaves the request of its caller unchanged.  After the call
\* the Header map of the original request has the keys and values it had
\* before, with no X-Scope-OrgID added to it or overwritten in it; the request
\* handed to the inner transport has the other headers of the original and
\* X-Scope-OrgID with the UserID of the client.
C32_CallerRequestUnchanged ==
    output.fn = "clone" =>
        /\ output.caller = input.req.Header
        /\ output.sent = HeaderSet(input.req.Header, XScopeOrgID, UserID(input.tenant))
        /\ output.sent = RoundTrip([userID |-> UserID(input.tenant)], input.req).Header

\* C32 witness: the caller's request carried the header of tenant 2, the
\* client is that of tenant 1: the request handed on carries tenant 1 and
\* the caller's request still tenant 2.
C32_Witness ==
    /\ output.fn = "clone"
    /\ input.tenant = 1
    /\ input.req.kind = "write"
    /\ XScopeOrgID \in DOMAIN input.req.Header
    /\ output.caller[XScopeOrgID] = <<UserID(2)>>
    /\ output.sent[XScopeOrgID] = <<UserID(1)>>

-----------------------------------------------------------------------------
(* Claims about the number of samples of a range query.                    *)

\* runQuery asks for the range Start: start, End: end, Step: step, both ends
\* included: the timestamps start, start + step, ... up to end, counted for
\* the window and the step of a step input.
RangeTimestamps == (StepWindow \div output.step) + 1

\* C33 as stated: for every eligible aligned window the step of getQueryStep
\* is a positive whole multiple of WriteInterval, and the timestamps start,
\* start + step, ... that are at most end are never more than 1000.
C33_RangeWithinBudget ==
    (output.fn = "step" /\ input.samples >= 1) =>
        /\ output.step > 0
        /\ output.step % input.interval = 0
        /\ RangeTimestamps <= maxSamples

\* What the code does (C33): the step is a positive multiple of
\* WriteInterval; the budget is compared with the number of intervals of the
\* window, one less than the number of timestamps, so a window of exactly
\* 1000 intervals keeps the step WriteInterval and has 1001 timestamps; every
\* other window has at most 1000.
RangeWithinBudgetPlusOne ==
    (output.fn = "step" /\ input.samples >= 1) =>
        /\ output.step > 0
        /\ output.step % input.interval = 0
        /\ RangeTimestamps <= maxSamples + 1
        /\ RangeTimestamps > maxSamples <=> input.samples = maxSamples

-----------------------------------------------------------------------------
(* Claims about what the verification does not look at.                    *)

\* Every sample of the sequence has the sum of the values n series carry at
\* its timestamp,
\* and every sample but the first is one step after the one before it.
CorrectAndContiguous(samples, n, step) ==
    /\ \A i \in 1..Len(samples) :
          samples[i].value
              = SineWaveSumAt(TimeOfMilli(samples[i].timestamp), n)
    /\ \A i \in 2..Len(samples) :
          samples[i].timestamp
              = UnixMilli(TimeOfMilli(samples[i - 1].timestamp) + step)

\* The goroutines of the current call whose default query has returned
\* samples, without error, that are correct and contiguous; the empty
\* sequence is.
ReturnedCorrect ==
    {g \in qgo : /\ g.id = 0 /\ g.st \in {"compared", "done"}
                 /\ runQuery(g.resp).err = "nil"
                 /\ CorrectAndContiguous(runQuery(g.resp).samples,
                                         qcfg.ExpectedSeries, g.step)}

ReturnedOffending ==
    {g \in qgo : /\ g.id = 0 /\ g.st \in {"compared", "done"}
                 /\ runQuery(g.resp).err = "nil"
                 /\ ~CorrectAndContiguous(runQuery(g.resp).samples,
                                          qcfg.ExpectedSeries, g.step)}

\* C34: the verification looks at the returned samples only.  A default
\* query that returns no sample, or correct and contiguous samples wherever
\* they lie with respect to the queried start and end, counts one comparison
\* success and no failure; one that returns offending samples, however many,
\* counts one comparison failure.
C34_OnlyReturnedSamplesVerified ==
    /\ ComparedDelta(comparisonSuccess, defaultQuery) = Cardinality(ReturnedCorrect)
    /\ ComparedDelta(comparisonFailed, defaultQuery) = Cardinality(ReturnedOffending)
    /\ ComparedDelta(comparisonFailed, defaultQuery) <= 1

\* C34 witness: the default query of an eligible tick returned no sample
\* for a window of at least one step, and the tick is over.
C34_Witness ==
    /\ AfterEligibleTick
    /\ \E g \in ReturnedCorrect :
          /\ runQuery(g.resp).samples = << >>
          /\ g.end >= g.start + g.step

\* The default query returned one correct sample that lies outside the queried
\* window; it returned two offending samples.
SampleOutsideWindowAccepted ==
    /\ AfterEligibleTick
    /\ \E g \in ReturnedCorrect :
          /\ Len(runQuery(g.resp).samples) = 1
          /\ TimeOfMilli(runQuery(g.resp).samples[1].timestamp) > g.end

TwoOffendingSamplesOneFailure ==
    /\ AfterEligibleTick
    /\ \E g \in ReturnedOffending : Len(runQuery(g.resp).samples) = 2
    /\ ComparedDelta(comparisonFailed, defaultQuery) = 1

-----------------------------------------------------------------------------
(* The write client under every batch size and concurrency from 0 on, its  *)
(* goroutines scheduled and its network calls returning.                   *)

HandlerConfigs ==
    [SeriesCount : {1, 2}, WriteBatchSize : {0, 1, 2},
     WriteConcurrency : {0, 1, 2}, WriteInterval : {2}]

HandlerInit ==
    /\ TenantsIdle
    /\ QueryClientIdle
    /\ MainIdle
    /\ HistoryIdle
    /\ WriteClientNew(HandlerConfigs)
    /\ input = [fn |-> "none"]
    /\ output = [fn |-> "none"]

HandlerNext ==
    \/ WriteSteps
    \/ Advance /\ UNCHANGED hist

SpecHandler == HandlerInit /\ [][HandlerNext]_vars /\ WF_vars(WriteSteps)

\* writeSeries is running: run() is between its entry and the return of
\* wg.Wait().
InHandler == pc \in {"loop", "wait"}

\* writeSeries has returned to run(): every goroutine it spawned has ended and
\* the gate holds no permit.
HandlerReturned ==
    /\ pc \in {"newticker", "recv", "call"}
    /\ tick >= 1
    /\ \A b \in batches : b.st = "done"
    /\ wg = 0
    /\ gateLen = 0

\* C31: with SeriesCount >= 1 and network calls that return, a write tick
\* handler terminates, every batch dispatched and awaited and every permit
\* released, if and only if WriteBatchSize >= 1 and WriteConcurrency >= 1.
\* With WriteBatchSize = 0 the loop stays at offset 0 and never reaches
\* wg.Wait(); with WriteConcurrency = 0 no batch leaves the gate's Start and
\* wg.Wait() never returns.
C31_HandlerTerminatesIffPositive ==
    /\ (InHandler /\ cfg.WriteBatchSize >= 1 /\ cfg.WriteConcurrency >= 1)
           ~> HandlerReturned
    /\ [](cfg.WriteBatchSize = 0 => /\ pc \in {"call", "loop"}
                                    /\ o = 0
                                    /\ tick <= 1)
    /\ [](cfg.WriteConcurrency = 0 => /\ pc \in {"call", "loop", "wait"}
                                      /\ tick <= 1
                                      /\ \A b \in batches : b.st = "spawned")

\* C31 witness: with batch size and concurrency of at least 1, a handler that
\* dispatched two batches through a gate of one permit has returned.
C31_Witness ==
    /\ cfg.WriteBatchSize >= 1
    /\ cfg.WriteConcurrency = 1
    /\ HandlerReturned
    /\ Cardinality(batches) = 2

\* With batch size 0 the handler has spawned as many goroutines as the bound
\* allows, all at offset 0, and some have already sent their empty request.
SpawnsWithoutEnd ==
    /\ cfg.WriteBatchSize = 0
    /\ cfg.WriteConcurrency >= 1
    /\ pc = "loop"
    /\ SpawnedInCall = MaxBatches
    /\ \A b \in batches : b.o = 0
    /\ \E b \in batches : b.st = "done"

\* With concurrency 0 the handler waits for batches none of which holds a
\* permit.
WaitsForGateWithoutRoom ==
    /\ cfg.WriteConcurrency = 0
    /\ cfg.WriteBatchSize >= 1
    /\ pc = "wait"
    /\ wg = Len(series)
    /\ wg > 0

=============================================================================
